---------------------------- MODULE Spec2Model ----------------------------
(***************************************************************************)
(* A model of the chat backend's tool-calling orchestration:               *)
(*   backend/app/main.py        chat endpoint, _run_llm_with_tools         *)
(*   backend/app/tools.py       run_tool, codec helpers                    *)
(*   backend/app/openrouter.py  create_chat_completion                     *)
(*                                                                         *)
(* Python values are tagged records [t |-> tag, v |-> payload].  A str is  *)
(* a sequence of pieces; the texts the code processes character by         *)
(* character (strip, int, json.loads, len, slicing) are written one        *)
(* character per piece, literals of the code may be a single piece.  A     *)
(* dict is the sequence of its <<key, value>> pairs in insertion order.    *)
(***************************************************************************)
EXTENDS Integers, Sequences, FiniteSets, TLC

-----------------------------------------------------------------------------
(* Python values *)

PyNone == [t |-> "None", v |-> 0]
PyBool(b) == [t |-> "bool", v |-> b]
PyInt(i) == [t |-> "int", v |-> i]
PyStr(s) == [t |-> "str", v |-> s]
PyList(s) == [t |-> "list", v |-> s]
PyDict(pairs) == [t |-> "dict", v |-> pairs]
PyOid(n) == [t |-> "ObjectId", v |-> n]
PyDatetime(n) == [t |-> "datetime", v |-> n]
\* The floats json.loads produces from NaN, Infinity and -Infinity.
PyFloat(s) == [t |-> "float", v |-> s]

EmptyDict == PyDict(<<>>)

\* bool(x): None, False, 0, "", [] and {} are falsy.
Truthy(x) ==
    CASE x.t = "None" -> FALSE
      [] x.t = "bool" -> x.v
      [] x.t = "int" -> x.v # 0
      [] x.t \in {"str", "list", "dict"} -> x.v # <<>>
      [] OTHER -> TRUE

\* x or y
Or(x, y) == IF Truthy(x) THEN x ELSE y

IsDict(x) == x.t = "dict"
IsStr(x) == x.t = "str"
IsList(x) == x.t = "list"

\* k in d
DictHas(d, k) == \E i \in 1..Len(d.v) : d.v[i][1] = k

\* d.get(k, default)
DictGetOr(d, k, default) ==
    IF DictHas(d, k)
    THEN d.v[CHOOSE i \in 1..Len(d.v) : d.v[i][1] = k][2]
    ELSE default

\* d.get(k)
DictGet(d, k) == DictGetOr(d, k, PyNone)

\* d[k] = x : an existing key keeps its place, a new key goes last.
DictSet(d, k, x) ==
    IF DictHas(d, k)
    THEN PyDict([i \in 1..Len(d.v) |-> IF d.v[i][1] = k THEN <<k, x>> ELSE d.v[i]])
    ELSE PyDict(Append(d.v, <<k, x>>))

-----------------------------------------------------------------------------
(* Text *)

Whitespace == {" ", "\t", "\n", "\r"}
DigitChars == <<"0", "1", "2", "3", "4", "5", "6", "7", "8", "9">>
IsDigit(c) == \E i \in 1..10 : DigitChars[i] = c
DigitVal(c) == (CHOOSE i \in 1..10 : DigitChars[i] = c) - 1

RECURSIVE LStrip(_)
LStrip(s) == IF s # <<>> /\ Head(s) \in Whitespace THEN LStrip(Tail(s)) ELSE s

RECURSIVE RStrip(_)
RStrip(s) ==
    IF s # <<>> /\ s[Len(s)] \in Whitespace THEN RStrip(SubSeq(s, 1, Len(s) - 1)) ELSE s

\* s.strip()
Strip(s) == RStrip(LStrip(s))

\* The decimal digits of a natural number.
RECURSIVE NatDigits(_)
NatDigits(n) ==
    IF n < 10 THEN <<DigitChars[n + 1]>>
    ELSE Append(NatDigits(n \div 10), DigitChars[(n % 10) + 1])

\* str(i) of an int
IntStr(i) == IF i < 0 THEN <<"-">> \o NatDigits(-i) ELSE NatDigits(i)

RECURSIVE Join(_, _)
\* sep.join(parts)
Join(parts, sep) ==
    IF parts = <<>> THEN <<>>
    ELSE IF Len(parts) = 1 THEN parts[1]
    ELSE parts[1] \o sep \o Join(Tail(parts), sep)

RECURSIVE Repr(_)
\* repr(x), which str(x) falls back to for everything but a str.
Repr(x) ==
    CASE x.t = "None" -> <<"N", "o", "n", "e">>
      [] x.t = "bool" -> IF x.v THEN <<"T", "r", "u", "e">> ELSE <<"F", "a", "l", "s", "e">>
      [] x.t = "int" -> IntStr(x.v)
      [] x.t = "str" -> <<"'">> \o x.v \o <<"'">>
      [] x.t = "list" ->
            <<"[">> \o Join([i \in 1..Len(x.v) |-> Repr(x.v[i])], <<",", " ">>) \o <<"]">>
      [] x.t = "dict" ->
            <<"{">> \o Join([i \in 1..Len(x.v) |->
                               <<"'", x.v[i][1], "'", ":", " ">> \o Repr(x.v[i][2])],
                            <<",", " ">>) \o <<"}">>
      [] OTHER -> <<x.t, "(", "...", ")">>

\* str(x)
Str(x) == IF x.t = "str" THEN x.v ELSE Repr(x)

RECURSIVE DigitsValue(_)
DigitsValue(s) ==
    IF s = <<>> THEN 0 ELSE 10 * DigitsValue(SubSeq(s, 1, Len(s) - 1)) + DigitVal(s[Len(s)])

AllDigits(s) == s # <<>> /\ \A i \in 1..Len(s) : IsDigit(s[i])

\* int(x): [exc |-> "none", val |-> n], or the exception raised.  A str is
\* stripped and is an optional sign followed by digits; None, list and dict
\* are TypeError; a NaN is ValueError and an infinity OverflowError.
IntOf(x) ==
    CASE x.t = "int" -> [exc |-> "none", val |-> x.v]
      [] x.t = "bool" -> [exc |-> "none", val |-> IF x.v THEN 1 ELSE 0]
      [] x.t = "float" ->
            [exc |-> IF x.v = "nan" THEN "ValueError" ELSE "OverflowError", val |-> 0]
      [] x.t = "str" ->
            LET s == Strip(x.v)
                neg == s # <<>> /\ Head(s) = "-"
                body == IF s # <<>> /\ Head(s) \in {"-", "+"} THEN Tail(s) ELSE s
            IN IF AllDigits(body)
               THEN [exc |-> "none",
                     val |-> IF neg THEN -DigitsValue(body) ELSE DigitsValue(body)]
               ELSE [exc |-> "ValueError", val |-> 0]
      [] OTHER -> [exc |-> "TypeError", val |-> 0]

Min(a, b) == IF a < b THEN a ELSE b
Max(a, b) == IF a > b THEN a ELSE b


-----------------------------------------------------------------------------
(* JSON codec: tools.py _json_safe, json.dumps, json.loads *)

\* The pieces of a text as one string (a dict key).
RECURSIVE Cat(_)
Cat(s) == IF s = <<>> THEN "" ELSE Head(s) \o Cat(Tail(s))

\* str(ObjectId): 24 hexadecimal characters.
OidLen == 24
OidStr(n) ==
    LET d == NatDigits(n) IN [i \in 1..(OidLen - Len(d)) |-> "0"] \o d

HexChars == {"0", "1", "2", "3", "4", "5", "6", "7", "8", "9",
             "a", "b", "c", "d", "e", "f", "A", "B", "C", "D", "E", "F"}

\* A validity test that lets every text through.
OidIsValidAny(s) == TRUE

\* ObjectId.is_valid(s) for a str
OidIsValid(s) == Len(s) = OidLen /\ \A i \in 1..Len(s) : s[i] \in HexChars

\* datetime.isoformat() of the instant n seconds after the epoch (n < 60)
IsoFormat(n) ==
    <<"1970-01-01T00:00:">> \o (IF n < 10 THEN <<"0">> ELSE <<>>) \o NatDigits(n)
        \o <<"+00:00">>

\* A _json_safe that converts the top level only.
JsonSafeMutNoRecurse(obj) ==
    CASE obj.t = "ObjectId" -> PyStr(OidStr(obj.v))
      [] obj.t = "datetime" -> PyStr(IsoFormat(obj.v))
      [] OTHER -> obj

RECURSIVE JsonSafe(_)
\* _json_safe(obj)
JsonSafe(obj) ==
    CASE obj.t = "ObjectId" -> PyStr(OidStr(obj.v))
      [] obj.t = "datetime" -> PyStr(IsoFormat(obj.v))
      [] obj.t = "list" -> PyList([i \in 1..Len(obj.v) |-> JsonSafe(obj.v[i])])
      [] obj.t = "dict" ->
            PyDict([i \in 1..Len(obj.v) |-> <<obj.v[i][1], JsonSafe(obj.v[i][2])>>])
      [] OTHER -> obj

RECURSIVE JsonSerializable(_)
\* Whether json.dumps accepts x (it raises TypeError on an ObjectId or datetime).
JsonSerializable(x) ==
    CASE x.t \in {"ObjectId", "datetime"} -> FALSE
      [] x.t = "list" -> \A i \in 1..Len(x.v) : JsonSerializable(x.v[i])
      [] x.t = "dict" -> \A i \in 1..Len(x.v) : JsonSerializable(x.v[i][2])
      [] OTHER -> TRUE

RECURSIVE JsonEscape(_)
\* The characters of s with each quote and backslash escaped, by halves.
JsonEscape(s) ==
    IF s = <<>> THEN <<>>
    ELSE IF Len(s) = 1
         THEN (IF s[1] \in {"\"", "\\"} THEN <<"\\", s[1]>> ELSE s)
    ELSE JsonEscape(SubSeq(s, 1, Len(s) \div 2))
           \o JsonEscape(SubSeq(s, (Len(s) \div 2) + 1, Len(s)))

RECURSIVE JsonDumps(_)
\* json.dumps(x, ensure_ascii=False) of a serializable x
JsonDumps(x) ==
    CASE x.t = "None" -> <<"n", "u", "l", "l">>
      [] x.t = "bool" -> IF x.v THEN <<"t", "r", "u", "e">> ELSE <<"f", "a", "l", "s", "e">>
      [] x.t = "int" -> IntStr(x.v)
      [] x.t = "float" ->
            CASE x.v = "nan" -> <<"N", "a", "N">>
              [] x.v = "inf" -> <<"I", "n", "f", "i", "n", "i", "t", "y">>
              [] OTHER -> <<"-", "I", "n", "f", "i", "n", "i", "t", "y">>
      [] x.t = "str" -> <<"\"">> \o JsonEscape(x.v) \o <<"\"">>
      [] x.t = "list" ->
            <<"[">> \o Join([i \in 1..Len(x.v) |-> JsonDumps(x.v[i])], <<",", " ">>)
                \o <<"]">>
      [] x.t = "dict" ->
            <<"{">> \o Join([i \in 1..Len(x.v) |->
                               <<"\"", x.v[i][1], "\"", ":", " ">> \o JsonDumps(x.v[i][2])],
                            <<",", " ">>) \o <<"}">>
      [] OTHER -> <<"<", "not serializable", ">">>

\* json.loads, by recursive descent over the characters.  A parse result is
\* [ok, val, rest]: the value read and the text after it.
ParseFail == [ok |-> FALSE, val |-> PyNone, rest |-> <<>>]
Parsed(val, rest) == [ok |-> TRUE, val |-> val, rest |-> rest]

StartsWith(s, p) == Len(s) >= Len(p) /\ SubSeq(s, 1, Len(p)) = p
Drop(s, n) == SubSeq(s, n + 1, Len(s))

RECURSIVE ScanString(_, _)
\* After the opening quote: the characters up to the closing quote.
ScanString(s, acc) ==
    IF s = <<>> THEN ParseFail
    ELSE IF Head(s) = "\"" THEN Parsed(PyStr(acc), Tail(s))
    ELSE IF Head(s) = "\\"
         THEN IF Len(s) >= 2 /\ s[2] \in {"\"", "\\", "/"}
              THEN ScanString(Drop(s, 2), Append(acc, s[2]))
              ELSE ParseFail
    ELSE IF Head(s) \in {"\n", "\t", "\r"} THEN ParseFail
    ELSE ScanString(Tail(s), Append(acc, Head(s)))

RECURSIVE ScanDigits(_)
\* The length of the longest prefix of digits.
ScanDigits(s) == IF s # <<>> /\ IsDigit(Head(s)) THEN 1 + ScanDigits(Tail(s)) ELSE 0

\* -?(0|[1-9][0-9]*) ; fractions and exponents are not modelled.
ParseNumber(s) ==
    LET neg == s # <<>> /\ Head(s) = "-"
        body == IF neg THEN Tail(s) ELSE s
        n == ScanDigits(body)
        digits == SubSeq(body, 1, n)
    IN IF n = 0 \/ (n > 1 /\ Head(body) = "0") THEN ParseFail
       ELSE Parsed(PyInt(IF neg THEN -DigitsValue(digits) ELSE DigitsValue(digits)),
                   Drop(body, n))

RECURSIVE ParseValue(_), ParseElements(_, _), ParseMembers(_, _)

ParseValue(s0) ==
    LET s == LStrip(s0) IN
    IF s = <<>> THEN ParseFail
    ELSE IF Head(s) = "{"
         THEN LET r == LStrip(Tail(s)) IN
              IF r # <<>> /\ Head(r) = "}" THEN Parsed(EmptyDict, Tail(r))
              ELSE ParseMembers(r, EmptyDict)
    ELSE IF Head(s) = "["
         THEN LET r == LStrip(Tail(s)) IN
              IF r # <<>> /\ Head(r) = "]" THEN Parsed(PyList(<<>>), Tail(r))
              ELSE ParseElements(r, <<>>)
    ELSE IF Head(s) = "\"" THEN ScanString(Tail(s), <<>>)
    ELSE IF StartsWith(s, <<"n", "u", "l", "l">>) THEN Parsed(PyNone, Drop(s, 4))
    ELSE IF StartsWith(s, <<"t", "r", "u", "e">>) THEN Parsed(PyBool(TRUE), Drop(s, 4))
    ELSE IF StartsWith(s, <<"f", "a", "l", "s", "e">>) THEN Parsed(PyBool(FALSE), Drop(s, 5))
    ELSE IF StartsWith(s, <<"N", "a", "N">>) THEN Parsed(PyFloat("nan"), Drop(s, 3))
    ELSE IF StartsWith(s, <<"I", "n", "f", "i", "n", "i", "t", "y">>)
         THEN Parsed(PyFloat("inf"), Drop(s, 8))
    ELSE IF StartsWith(s, <<"-", "I", "n", "f", "i", "n", "i", "t", "y">>)
         THEN Parsed(PyFloat("-inf"), Drop(s, 9))
    ELSE ParseNumber(s)

\* The elements of an array after "[", up to and including "]".
ParseElements(s, acc) ==
    LET e == ParseValue(s)
        r == LStrip(e.rest)
    IN IF ~e.ok \/ r = <<>> THEN ParseFail
       ELSE IF Head(r) = "]" THEN Parsed(PyList(Append(acc, e.val)), Tail(r))
       ELSE IF Head(r) = "," THEN ParseElements(Tail(r), Append(acc, e.val))
       ELSE ParseFail

\* The members of an object after "{", up to and including "}"; a repeated
\* key keeps its last value.
ParseMembers(s0, acc) ==
    LET s == LStrip(s0) IN
    IF s = <<>> \/ Head(s) # "\"" THEN ParseFail
    ELSE LET k == ScanString(Tail(s), <<>>)
             c == LStrip(k.rest)
         IN IF ~k.ok \/ c = <<>> \/ Head(c) # ":" THEN ParseFail
            ELSE LET e == ParseValue(Tail(c))
                     r == LStrip(e.rest)
                     d == DictSet(acc, Cat(k.val.v), e.val)
                 IN IF ~e.ok \/ r = <<>> THEN ParseFail
                    ELSE IF Head(r) = "}" THEN Parsed(d, Tail(r))
                    ELSE IF Head(r) = "," THEN ParseMembers(Tail(r), d)
                    ELSE ParseFail

\* json.loads(text): [exc |-> "none", val |-> value] or JSONDecodeError.
JsonLoads(text) ==
    LET p == ParseValue(text) IN
    IF p.ok /\ LStrip(p.rest) = <<>>
    THEN [exc |-> "none", val |-> p.val]
    ELSE [exc |-> "JSONDecodeError", val |-> PyNone]

\* tools.py safe_parse_tool_arguments
\* The parse that answers JSON that is no object with {}.
safe_parse_tool_argumentsEmptyOnNonObject(raw_arguments) ==
    IF IsDict(raw_arguments) THEN raw_arguments
    ELSE IF ~IsStr(raw_arguments) THEN EmptyDict
    ELSE LET parsed == JsonLoads(raw_arguments.v) IN
         IF parsed.exc # "none"
         THEN PyDict(<< <<"_parse_error", PyStr(<<"invalid_json">>)>>,
                        <<"_raw", raw_arguments>> >>)
         ELSE IF IsDict(parsed.val) THEN parsed.val
         ELSE EmptyDict

\* tools.py safe_parse_tool_arguments
safe_parse_tool_arguments(raw_arguments) ==
    IF IsDict(raw_arguments) THEN raw_arguments
    ELSE IF ~IsStr(raw_arguments) THEN EmptyDict
    ELSE LET parsed == JsonLoads(raw_arguments.v) IN
         IF parsed.exc # "none"
         THEN PyDict(<< <<"_parse_error", PyStr(<<"invalid_json">>)>>,
                        <<"_raw", raw_arguments>> >>)
         ELSE IF IsDict(parsed.val) THEN parsed.val
         ELSE PyDict(<< <<"_parse_error", PyStr(<<"expected_object">>)>>,
                        <<"_raw", raw_arguments>> >>)

\* tools.py tool_result_message
tool_result_message(tool_call_id, result) ==
    PyDict(<< <<"role", PyStr(<<"tool">>)>>,
              <<"tool_call_id", tool_call_id>>,
              <<"content", PyStr(JsonDumps(JsonSafe(result)))>> >>)

-----------------------------------------------------------------------------
(* Tool handlers: tools.py run_tool and its helpers *)

UpperChars == <<"A", "B", "C", "D", "E", "F", "G", "H", "I", "J", "K", "L", "M",
                "N", "O", "P", "Q", "R", "S", "T", "U", "V", "W", "X", "Y", "Z">>
LowerChars == <<"a", "b", "c", "d", "e", "f", "g", "h", "i", "j", "k", "l", "m",
                "n", "o", "p", "q", "r", "s", "t", "u", "v", "w", "x", "y", "z">>

LowerChar(c) ==
    IF \E i \in 1..26 : UpperChars[i] = c
    THEN LowerChars[CHOOSE i \in 1..26 : UpperChars[i] = c]
    ELSE c

\* s.lower()
Lower(s) == [i \in 1..Len(s) |-> LowerChar(s[i])]

\* needle occurs in hay
Contains(hay, needle) ==
    \E i \in 1..(Len(hay) - Len(needle) + 1) : SubSeq(hay, i, i + Len(needle) - 1) = needle

\* tools.py _clamp_int: int() raising TypeError or ValueError gives the
\* default; any other exception of int() propagates.
_clamp_int(value, minimum, maximum, default) ==
    LET parsed == IntOf(value) IN
    IF parsed.exc \in {"TypeError", "ValueError"} THEN [exc |-> "none", val |-> default]
    ELSE IF parsed.exc # "none" THEN parsed
    ELSE [exc |-> "none", val |-> Max(minimum, Min(maximum, parsed.val))]

\* The marker appended by tools.py _trim_text, as the source file spells it:
\* three characters.
TrimMarker == <<"U+00E2", "U+20AC", "U+00A6">>

\* tools.py _trim_text
_trim_text(value, max_len) ==
    LET text == Strip(Str(Or(value, PyStr(<<>>)))) IN
    IF Len(text) <= max_len THEN text
    ELSE SubSeq(text, 1, max_len - 1) \o TrimMarker

RECURSIVE PickFrom(_, _, _)
PickFrom(source, keys, out) ==
    IF keys = <<>> THEN out
    ELSE PickFrom(source, Tail(keys),
                  IF DictHas(source, Head(keys)) /\ DictGet(source, Head(keys)) # PyNone
                  THEN DictSet(out, Head(keys), DictGet(source, Head(keys)))
                  ELSE out)

\* tools.py _pick
_pick(source, keys) == IF ~IsDict(source) THEN EmptyDict ELSE PickFrom(source, keys, EmptyDict)

\* What a for loop over x iterates: the elements of a list, the characters of
\* a str, the keys of a dict; anything else is not iterable.
Iterate(x) ==
    CASE x.t = "list" -> [exc |-> "none", items |-> x.v]
      [] x.t = "str" -> [exc |-> "none", items |-> [i \in 1..Len(x.v) |-> PyStr(<<x.v[i]>>)]]
      [] x.t = "dict" -> [exc |-> "none", items |-> [i \in 1..Len(x.v) |-> PyStr(<<x.v[i][1]>>)]]
      [] OTHER -> [exc |-> "TypeError", items |-> <<>>]

\* The tags trimmed, the empty ones kept.
SelectSeqByKeepAll(items, acc) ==
    acc \o [i \in 1..Len(items) |-> PyStr(Strip(Str(items[i])))]

RECURSIVE SelectSeqBy(_, _)
\* [str(t).strip() for t in tags if str(t).strip()]
SelectSeqBy(items, acc) ==
    IF items = <<>> THEN acc
    ELSE SelectSeqBy(Tail(items),
                     IF Strip(Str(Head(items))) # <<>>
                     THEN Append(acc, PyStr(Strip(Str(Head(items)))))
                     ELSE acc)

ErrorPayload(msg) == PyDict(<< <<"ok", PyBool(FALSE)>>, <<"error", PyStr(msg)>> >>)

\* What run_tool leaves behind: the exception it raised ("none": it
\* returned result), the note store, the network calls it made and whether
\* it read the clock.
Returned(result, notes, net_calls, ticked) ==
    [exc |-> "none", result |-> result, notes |-> notes, net_calls |-> net_calls,
     ticked |-> ticked]
Raised(exc, notes, net_calls) ==
    [exc |-> exc, result |-> PyNone, notes |-> notes, net_calls |-> net_calls,
     ticked |-> FALSE]

\* The dict a note query returns for a stored document.
NoteView(doc) ==
    PyDict(<< <<"id", PyStr(OidStr(DictGet(doc, "_id").v))>>,
              <<"title", DictGetOr(doc, "title", PyStr(<<>>))>>,
              <<"content", DictGetOr(doc, "content", PyStr(<<>>))>>,
              <<"tags", DictGetOr(doc, "tags", PyList(<<>>))>>,
              <<"created_at", JsonSafe(DictGet(doc, "created_at"))>> >>)

CreatedAt(doc) == DictGet(doc, "created_at").v

RECURSIVE InsertDesc(_, _)
\* doc put into a list that is sorted newest first, after the documents that
\* are as new as it.
InsertDesc(sorted, doc) ==
    IF sorted = <<>> THEN <<doc>>
    ELSE IF CreatedAt(Head(sorted)) >= CreatedAt(doc)
         THEN <<Head(sorted)>> \o InsertDesc(Tail(sorted), doc)
         ELSE <<doc>> \o sorted

RECURSIVE SortDesc(_)
\* cursor.sort("created_at", -1): newest first, documents of one instant in
\* insertion order.
SortDesc(docs) ==
    IF docs = <<>> THEN <<>>
    ELSE InsertDesc(SortDesc(SubSeq(docs, 1, Len(docs) - 1)), docs[Len(docs)])

\* cursor.limit(n)
Limit(docs, n) == SubSeq(docs, 1, Min(n, Len(docs)))

\* The same match without the option "i".
RegexMatchCaseSensitive(field, query) == IsStr(field) /\ Contains(field.v, query)

\* {"$regex": re.escape(query), "$options": "i"} on a str field
RegexMatch(field, query) == IsStr(field) /\ Contains(Lower(field.v), Lower(query))

\* The $or filter of search_notes: title, content or some tag matches.
NoteMatches(doc, query) ==
    \/ RegexMatch(DictGet(doc, "title"), query)
    \/ RegexMatch(DictGet(doc, "content"), query)
    \/ LET tags == DictGet(doc, "tags") IN
       IsList(tags) /\ \E i \in 1..Len(tags.v) : RegexMatch(tags.v[i], query)

RECURSIVE Filter(_, _)
Filter(docs, query) ==
    IF docs = <<>> THEN <<>>
    ELSE (IF NoteMatches(Head(docs), query) THEN <<Head(docs)>> ELSE <<>>)
             \o Filter(Tail(docs), query)

NotesPayload(docs) ==
    PyDict(<< <<"ok", PyBool(TRUE)>>,
              <<"notes", PyList([i \in 1..Len(docs) |-> NoteView(docs[i])])>> >>)

\* int(arguments.get("limit") or 10), then max(1, min(50, limit))
NoteLimit(arguments) ==
    LET parsed == IntOf(Or(DictGet(arguments, "limit"), PyInt(10))) IN
    IF parsed.exc # "none" THEN parsed
    ELSE [exc |-> "none", val |-> Max(1, Min(50, parsed.val))]

\* run_tool, tool_name == "create_note".  db = [notes, ok]: the stored
\* documents and whether the store answers; env.now is the clock.
RunCreateNote(db, arguments, env) ==
    LET title == Strip(Str(DictGetOr(arguments, "title", PyStr(<<>>))))
        content == Strip(Str(DictGetOr(arguments, "content", PyStr(<<>>))))
        tags0 == Or(DictGet(arguments, "tags"), PyList(<<>>))
        it == Iterate(tags0)
        tags == SelectSeqBy(it.items, <<>>)
        oid == Len(db.notes) + 1
        \* insert_one adds the assigned _id to the dict it is given
        note == PyDict(<< <<"title", PyStr(title)>>, <<"content", PyStr(content)>>,
                          <<"tags", PyList(tags)>>,
                          <<"created_at", PyDatetime(env.now)>>,
                          <<"_id", PyOid(oid)>> >>)
    IN IF it.exc # "none" THEN Raised(it.exc, db.notes, 0)
       ELSE IF title = <<>> \/ content = <<>>
            THEN Returned(ErrorPayload(<<"title and content are required">>),
                          db.notes, 0, FALSE)
       ELSE IF ~db.ok THEN Raised("PyMongoError", db.notes, 0)
       ELSE Returned(PyDict(<< <<"ok", PyBool(TRUE)>>,
                               <<"note", PyDict(<< <<"id", PyStr(OidStr(oid))>> >>
                                                \o JsonSafe(note).v)>> >>),
                     Append(db.notes, note), 0, TRUE)

\* run_tool, tool_name == "search_notes"
RunSearchNotes(db, arguments, env) ==
    LET query == Strip(Str(DictGetOr(arguments, "query", PyStr(<<>>))))
        limit == NoteLimit(arguments)
    IN IF limit.exc # "none" THEN Raised(limit.exc, db.notes, 0)
       ELSE IF query = <<>>
            THEN Returned(ErrorPayload(<<"query is required">>), db.notes, 0, FALSE)
       ELSE IF ~db.ok THEN Raised("PyMongoError", db.notes, 0)
       ELSE Returned(NotesPayload(Limit(SortDesc(Filter(db.notes, query)), limit.val)),
                     db.notes, 0, FALSE)

\* run_tool, tool_name == "list_notes"
RunListNotes(db, arguments, env) ==
    LET limit == NoteLimit(arguments)
    IN IF limit.exc # "none" THEN Raised(limit.exc, db.notes, 0)
       ELSE IF ~db.ok THEN Raised("PyMongoError", db.notes, 0)
       ELSE Returned(NotesPayload(Limit(SortDesc(db.notes), limit.val)),
                     db.notes, 0, FALSE)

\* run_tool, tool_name == "get_note"
RunGetNote(db, arguments, env) ==
    LET note_id == Strip(Str(DictGetOr(arguments, "note_id", PyStr(<<>>))))
        found == {i \in 1..Len(db.notes) :
                    OidStr(DictGet(db.notes[i], "_id").v) = Lower(note_id)}
    IN IF ~OidIsValid(note_id)
       THEN Returned(ErrorPayload(<<"invalid note_id">>), db.notes, 0, FALSE)
       ELSE IF ~db.ok THEN Raised("PyMongoError", db.notes, 0)
       ELSE IF found = {}
            THEN Returned(ErrorPayload(<<"not found">>), db.notes, 0, FALSE)
       ELSE Returned(PyDict(<< <<"ok", PyBool(TRUE)>>,
                               <<"note", NoteView(db.notes[CHOOSE i \in found : TRUE])>> >>),
                     db.notes, 0, FALSE)

\* run_tool, tool_name == "get_server_time"
RunGetServerTime(db, arguments, env) ==
    Returned(PyDict(<< <<"ok", PyBool(TRUE)>>, <<"utc", PyStr(IsoFormat(env.now))>> >>),
             db.notes, 0, TRUE)

\* One result of search_web for an item of the response; an item that is
\* not a dict has no get.
WebResult(item, search_type) ==
    IF search_type = "news"
    THEN PyDict(<< <<"title", PyStr(_trim_text(DictGet(item, "title"), 200))>>,
                   <<"link", DictGet(item, "link")>>,
                   <<"snippet", PyStr(_trim_text(DictGet(item, "snippet"), 400))>>,
                   <<"source", DictGet(item, "source")>>,
                   <<"date", DictGet(item, "date")>> >>)
    ELSE PyDict(<< <<"title", PyStr(_trim_text(DictGet(item, "title"), 200))>>,
                   <<"link", DictGet(item, "link")>>,
                   <<"snippet", PyStr(_trim_text(DictGet(item, "snippet"), 400))>>,
                   <<"position", DictGet(item, "position")>> >>)

\* run_tool, tool_name == "search_web", after the response body was parsed
\* into data.
WebResults(db, data, search_type, query, num_results) ==
    LET listed == IF IsDict(data)
                  THEN Or(DictGet(data, IF search_type = "news" THEN "news" ELSE "organic"),
                          PyList(<<>>))
                  ELSE PyNone
        items == IF IsList(listed) THEN Limit(listed.v, num_results) ELSE <<>>
        out == PyDict(<< <<"ok", PyBool(TRUE)>>,
                         <<"type", PyStr(<<search_type>>)>>,
                         <<"query", PyStr(query)>>,
                         <<"results",
                           PyList([i \in 1..Len(items) |-> WebResult(items[i], search_type)])>> >>)
        answer_box == _pick(DictGet(data, "answerBox"), <<"answer", "snippet", "title", "link">>)
        knowledge_graph == _pick(DictGet(data, "knowledgeGraph"),
                                 <<"title", "type", "description", "website", "imageUrl">>)
        out1 == IF Truthy(answer_box) THEN DictSet(out, "answer_box", answer_box) ELSE out
        out2 == IF Truthy(knowledge_graph)
                THEN DictSet(out1, "knowledge_graph", knowledge_graph) ELSE out1
    IN \* data.get on a body that is no object
       IF ~IsDict(data) THEN Raised("AttributeError", db.notes, 1)
       \* slicing or iterating a listing that is no list
       ELSE IF ~IsList(listed)
            THEN Raised(IF IsStr(listed) THEN "AttributeError" ELSE "TypeError", db.notes, 1)
       \* item.get on an item that is no object
       ELSE IF \E i \in 1..Len(items) : ~IsDict(items[i])
            THEN Raised("AttributeError", db.notes, 1)
       ELSE Returned(out2, db.notes, 1, FALSE)

\* A search_web that takes the key for set.
SerperKeyNeverMissing(env) == FALSE

\* if not settings.serper_api_key
SerperKeyMissing(env) == ~Truthy(env.serper_api_key)

\* The payload that tells a failed request as it tells an error status.
RequestFailedPayloadAsStatus(exc) == ErrorPayload(<<"serper returned an error">>)

\* except Exception as exc, around client.post
RequestFailedPayload(exc) == ErrorPayload(<<"serper request failed: ", exc>>)

\* run_tool, tool_name == "search_web".  env.serper_api_key is the setting;
\* env.net is what client.post does: it raises (kind "error"), or answers
\* with a status and a body text.  The request's gl and hl are not modelled.
RunSearchWeb(db, arguments, env) ==
    LET query == Strip(Str(Or(DictGet(arguments, "query"), PyStr(<<>>))))
        type0 == Cat(Lower(Strip(Str(Or(DictGet(arguments, "type"), PyStr(<<"search">>))))))
        search_type == IF type0 \in {"search", "news"} THEN type0 ELSE "search"
        num_results == _clamp_int(DictGet(arguments, "num_results"), 1, 10, 5)
        data == env.net.json
    IN IF SerperKeyMissing(env)
       THEN Returned(ErrorPayload(<<"SERPER_API_KEY is not set (add it to backend/.env).">>),
                     db.notes, 0, FALSE)
       ELSE IF query = <<>>
            THEN Returned(ErrorPayload(<<"query is required">>), db.notes, 0, FALSE)
       ELSE IF num_results.exc # "none" THEN Raised(num_results.exc, db.notes, 0)
       ELSE IF env.net.kind = "error"
            THEN Returned(RequestFailedPayload(env.net.exc), db.notes, 1, FALSE)
       ELSE IF env.net.status >= 400
            THEN Returned(PyDict(<< <<"ok", PyBool(FALSE)>>,
                                    <<"error", PyStr(<<"serper returned an error">>)>>,
                                    <<"status", PyInt(env.net.status)>>,
                                    <<"body", PyStr(_trim_text(PyStr(env.net.text), 800))>> >>),
                          db.notes, 1, FALSE)
       ELSE IF data.exc # "none"
            THEN Returned(ErrorPayload(<<"invalid serper json: ", data.exc>>),
                          db.notes, 1, FALSE)
       ELSE WebResults(db, data.val, search_type, query, num_results.val)

\* A dispatch that raises for a name it does not know.
UnknownToolRaises(db, tool_name) == Raised("KeyError", db.notes, 0)

\* run_tool's last line: no branch matched tool_name.
UnknownTool(db, tool_name) ==
    Returned(ErrorPayload(<<"unknown tool: ">> \o Str(tool_name)), db.notes, 0, FALSE)

\* tools.py run_tool: the dispatch on tool_name, a Python value.
run_tool(db, tool_name, arguments, env) ==
    LET name == IF IsStr(tool_name) THEN Cat(tool_name.v) ELSE "" IN
    CASE name = "create_note" -> RunCreateNote(db, arguments, env)
      [] name = "search_notes" -> RunSearchNotes(db, arguments, env)
      [] name = "list_notes" -> RunListNotes(db, arguments, env)
      [] name = "get_note" -> RunGetNote(db, arguments, env)
      [] name = "get_server_time" -> RunGetServerTime(db, arguments, env)
      [] name = "search_web" -> RunSearchWeb(db, arguments, env)
      [] OTHER -> UnknownTool(db, tool_name)

-----------------------------------------------------------------------------
(* State *)

VARIABLES
    settings,        \* get_settings(): openrouter_api_key, serper_api_key
    notes,           \* db.notes, in insertion order
    session,         \* the session document of db.sessions
    clock,           \* _utc_now()
    turn,            \* chat requests begun
    pc,              \* where the chat request stands
    existing,        \* chat: the session document read at the start
    user_message,    \* chat: user_message_to_store
    input,           \* _run_llm_with_tools: the messages argument
    llm_messages,    \* _run_llm_with_tools: llm_messages
    initial_len,     \* _run_llm_with_tools: initial_len
    tool_trace,      \* _run_llm_with_tools: tool_trace
    round,           \* iterations of "for _ in range(6)" begun
    tool_calls,      \* the tool calls of the current round
    call_i,          \* the next of them to dispatch
    generated,       \* what _run_llm_with_tools returned
    error,           \* the exception that left _run_llm_with_tools
    status,          \* the HTTP status of the chat response (0: none yet)
    provider_calls,  \* history: calls of create_chat_completion in this run
    net_calls,       \* history: HTTP requests sent, to the provider and by tools
    appended,        \* history: the messages appended to llm_messages in this run
    provider_total,  \* history: calls of create_chat_completion of all runs
    rich,            \* provider replies drawn from RichResponses so far
    tool_run,        \* the last direct call of run_tool: its arguments and outcome
    requests,        \* history: the message lists handed to the provider in this run
    applied,         \* the last direct call of a pure helper: its argument and result
    other            \* a second chat request on the same session

chatVars == <<turn, existing, user_message, status>>
loopVars == <<input, llm_messages, initial_len, tool_trace, round, tool_calls, call_i,
              generated, error, provider_calls, appended, requests>>
envVars == <<applied, other>>
vars == <<settings, notes, session, clock, pc, chatVars, loopVars, net_calls,
          provider_total, rich, tool_run, envVars>>

\* main.py: for _ in range(6)
MaxRounds == 6

\* Bounds of the model.
MaxRich == 1            \* rounds of one run whose reply is one of RichResponses
MaxTurns == 2           \* chat requests
MaxProviderCalls == 4   \* provider calls of all chat requests together
MaxToolRuns == 3        \* direct calls of run_tool

SYSTEM_PROMPT ==
    <<"You are a helpful assistant in a tool-calling playground.", "\n", "\n",
      "You have access to tools for saving and searching notes in MongoDB, and searching Project Gutenberg for books.",
      "\n",
      "Use tools when it helps (e.g., when asked to remember something, store a note; when asked to recall, search/list notes).",
      "\n", "\n",
      "When you call tools, keep arguments minimal and valid JSON.", "\n",
      "After using tools, respond to the user with a short confirmation and the requested info.",
      "\n">>
SystemMessage ==
    PyDict(<< <<"role", PyStr(<<"system">>)>>, <<"content", PyStr(SYSTEM_PROMPT)>> >>)

Message(role, content) ==
    PyDict(<< <<"role", PyStr(<<role>>)>>, <<"content", PyStr(content)>> >>)

-----------------------------------------------------------------------------
(* The provider: what create_chat_completion can return *)

\* tools.py TOOLS: the names of the declarations handed to the provider.
TOOLS ==
    <<"create_note", "search_notes", "list_notes", "get_note", "get_server_time",
      "search_web">>

ToolCall(id, name, arguments) ==
    PyDict(<< <<"id", id>>,
              <<"type", PyStr(<<"function">>)>>,
              <<"function", PyDict(<< <<"name", PyStr(<<name>>)>>,
                                      <<"arguments", arguments>> >>)>> >>)

AssistantReply(content, calls) ==
    PyDict(<< <<"choices",
                PyList(<< PyDict(<< <<"message",
                    PyDict(<< <<"role", PyStr(<<"assistant">>)>>,
                              <<"content", content>>,
                              <<"tool_calls", calls>> >>)>> >>) >>)>> >>)

\* The plain call: a well-formed request of get_server_time.
PlainCall == ToolCall(PyStr(<<"call_t">>), "get_server_time", PyStr(<<"{", "}">>))
PlainToolResponse == AssistantReply(PyNone, PyList(<<PlainCall>>))

\* The plain final answer.
PlainFinalResponse ==
    PyDict(<< <<"choices",
                PyList(<< PyDict(<< <<"message", Message("assistant", <<"d", "o", "n", "e">>)>> >>) >>)>> >>)

T_Groceries == <<"G", "r", "o", "c", "e", "r", "i", "e", "s">>
T_milk == <<"m", "i", "l", "k">>

ArgsCreateNote ==
    PyStr(<<"{", "\"", "title", "\"", ":", " ", "\"">> \o T_Groceries \o <<"\"", ",", " ",
            "\"", "content", "\"", ":", " ", "\"">> \o T_milk \o <<"\"", "}">>)
ArgsNotJson == PyStr(<<"{", "n", "o", "t", " ", "j", "s", "o", "n">>)
ArgsLimitText == PyDict(<< <<"limit", PyStr(<<"a", "b", "c">>)>> >>)
ArgsQuery == PyDict(<< <<"query", PyStr(T_milk)>>, <<"limit", PyInt(0)>> >>)

CallCreateNote == ToolCall(PyStr(<<"call_a">>), "create_note", ArgsCreateNote)
\* id null
CallNullId == ToolCall(PyNone, "search_notes", ArgsQuery)
\* id omitted, a name that is no tool, arguments that are no JSON
CallNoId ==
    PyDict(<< <<"function", PyDict(<< <<"name", PyStr(<<"bogus">>)>>,
                                      <<"arguments", ArgsNotJson>> >>)>> >>)
\* a limit that int() rejects
CallBadLimit == ToolCall(PyStr(<<"call_b">>), "list_notes", ArgsLimitText)
CallSearchWeb == ToolCall(PyStr(<<"call_w">>), "search_web", ArgsQuery)
\* function null
CallNoFunction == PyDict(<< <<"id", PyStr(<<>>)>>, <<"function", PyNone>> >>)

\* Final answers in the other shapes a provider sends.
RichFinalResponses ==
    { EmptyDict,
      PyDict(<< <<"choices", PyList(<<>>)>> >>),
      PyDict(<< <<"choices", PyList(<< PyDict(<< <<"message", PyNone>> >>) >>)>> >>),
      AssistantReply(PyStr(<<"h", "i">>), PyNone),
      AssistantReply(PyStr(<<>>), PyList(<<>>)) }

\* Tool-call replies other than the plain one.
RichToolResponses ==
    { AssistantReply(PyNone, PyList(calls)) :
        calls \in { <<CallCreateNote>>, <<CallNullId>>, <<CallNoId>>, <<CallBadLimit>>,
                    <<CallSearchWeb>>, <<CallNoFunction>>,
                    <<CallCreateNote, CallNullId>>,
                    <<PlainCall, CallNoId, PlainCall>>,
                    <<CallCreateNote, CallBadLimit, PlainCall>> } }

RichResponses == RichFinalResponses \cup RichToolResponses

\* The ones among them a chat request's provider sends.
ChatRichResponses ==
    { AssistantReply(PyStr(<<"h", "i">>), PyNone),
      AssistantReply(PyNone, PyList(<<CallCreateNote, PlainCall>>)),
      AssistantReply(PyNone, PyList(<<CallBadLimit>>)) }

\* What tools' client.post can do.
T_WebBody ==
    <<"{", "\"", "organic", "\"", ":", " ", "[", "{", "\"", "title", "\"", ":", " ", "\"",
      "T", "L", "A", "\"", "}", "]", "}">>
\* A response with a status and a body; json is what response.json() makes
\* of the body.
NetResponse(status_code, text) ==
    [kind |-> "response", exc |-> "", status |-> status_code, text |-> text,
     json |-> JsonLoads(text)]
NetOutcomes ==
    { [kind |-> "error", exc |-> "ConnectError", status |-> 0, text |-> <<>>,
       json |-> JsonLoads(<<>>)],
      NetResponse(500, <<"o", "o", "p", "s">>),
      NetResponse(200, <<"<", "h", "t", "m", "l", ">">>),
      NetResponse(200, <<"[", "]">>),
      NetResponse(200, T_WebBody) }

\* A response of more items than any num_results, the first with a title and
\* a snippet longer than their caps.
LongText(n) == [i \in 1..n |-> "a"]
LongItems ==
    <<PyDict(<< <<"title", PyStr(LongText(200 + 1))>>,
                <<"snippet", PyStr(LongText(400 + 1))>> >>)>>
      \o [i \in 1..10 |-> PyDict(<< <<"title", PyStr(<<"T", "L", "A">>)>>,
                                     <<"position", PyInt(i + 1)>> >>)]
LongBody(key) == PyDict(<< <<key, PyList(LongItems)>> >>)
LongOutcomes ==
    { [kind |-> "response", exc |-> "", status |-> 200, text |-> JsonDumps(LongBody(key)),
       json |-> [exc |-> "none", val |-> LongBody(key)]] : key \in {"organic", "news"} }

\* The tools that query the note store, and the one that sends a request.
StoreTools == {"create_note", "search_notes", "list_notes", "get_note"}
NetTools == {"search_web"}
NetDown == CHOOSE o \in NetOutcomes : o.kind = "error"

\* The store and the search service as a call of tool_name meets them: the
\* store answers or fails, the service behaves in one of NetOutcomes; a tool
\* that uses neither meets neither.
StoreStates(name) == IF name \in StoreTools THEN BOOLEAN ELSE {TRUE}
NetStates(name) == IF name \in NetTools THEN NetOutcomes ELSE {NetDown}
\* The same with the long responses.
NetStatesLong(name) == IF name \in NetTools THEN NetOutcomes \cup LongOutcomes ELSE {NetDown}

\* What the provider's endpoint can do with one request: the transport
\* fails, or it answers with a status and a body; json is what
\* response.json() makes of the body.
NoJson == [exc |-> "JSONDecodeError", val |-> PyNone]
ProviderOutcomes(rich_responses) ==
    { [kind |-> "error", status |-> 0, json |-> NoJson, rich |-> FALSE],
      [kind |-> "response", status |-> 500, json |-> NoJson, rich |-> FALSE],
      [kind |-> "response", status |-> 200, json |-> NoJson, rich |-> FALSE] }
    \cup { [kind |-> "response", status |-> 200, json |-> [exc |-> "none", val |-> r],
            rich |-> FALSE] : r \in {PlainToolResponse, PlainFinalResponse} }
    \cup { [kind |-> "response", status |-> 200, json |-> [exc |-> "none", val |-> r],
            rich |-> TRUE] : r \in rich_responses }

-----------------------------------------------------------------------------
(* openrouter.py create_chat_completion *)

\* [exc, response, net_calls]: the exception raised ("none": response is
\* returned) and the HTTP requests sent.
create_chat_completion(s, outcome) ==
    LET body == outcome.json IN
    IF ~Truthy(s.openrouter_api_key)
    THEN [exc |-> "OpenRouterError", response |-> PyNone, net_calls |-> 0]
    \* client.post raises: nothing here catches it
    ELSE IF outcome.kind = "error"
         THEN [exc |-> "httpx.TransportError", response |-> PyNone, net_calls |-> 1]
    ELSE IF outcome.status >= 400
         THEN [exc |-> "OpenRouterError", response |-> PyNone, net_calls |-> 1]
    \* response.json() raises on a body that is no JSON
    ELSE IF body.exc # "none"
         THEN [exc |-> body.exc, response |-> PyNone, net_calls |-> 1]
    ELSE [exc |-> "none", response |-> body.val, net_calls |-> 1]

-----------------------------------------------------------------------------
(* main.py _run_llm_with_tools *)

\* llm_messages[initial_len:] with the mistake of cutting the system prompt only
ReturnedMessagesCutOne(messages, n) == SubSeq(messages, 2, Len(messages))

\* llm_messages[initial_len:]
ReturnedMessages(messages, n) == SubSeq(messages, n + 1, Len(messages))

\* The reply taken without the empty assistant message to fall back on.
AssistantMessageNoDefault(response) ==
    LET choices == Or(DictGet(response, "choices"), PyList(<<EmptyDict>>))
        choice == choices.v[1]
    IN Or(DictGet(choice, "message"), EmptyDict)

\* (response.get("choices") or [{}])[0], then choice.get("message") or the
\* empty assistant message
AssistantMessage(response) ==
    LET choices == Or(DictGet(response, "choices"), PyList(<<EmptyDict>>))
        choice == choices.v[1]
    IN Or(DictGet(choice, "message"), Message("assistant", <<>>))

\* assistant_message.get("tool_calls") or []
ToolCallsOf(assistant_message) == Or(DictGet(assistant_message, "tool_calls"), PyList(<<>>))

\* call.get("id") or ""
ToolCallId(call) == Or(DictGet(call, "id"), PyStr(<<>>))
\* (call.get("function") or {}).get("name") or ""
ToolName(call) == Or(DictGet(Or(DictGet(call, "function"), EmptyDict), "name"), PyStr(<<>>))
\* (call.get("function") or {}).get("arguments")
RawArguments(call) == DictGet(Or(DictGet(call, "function"), EmptyDict), "arguments")

\* "if not tool_calls: break" that stops only at None
NoToolCallsNoneOnly(calls) == calls = PyNone

\* if not tool_calls: break
NoToolCalls(calls) == ~Truthy(calls)

\* "for call in tool_calls" walked from the last call to the first
CurrentCallReversed(calls, i) == calls[Len(calls) + 1 - i]

\* for call in tool_calls: the call of the i-th pass
CurrentCall(calls, i) == calls[i]

\* A trace entry that records the arguments as the provider sent them.
TraceEntryRaw(call, parsed_arguments, result) ==
    PyDict(<< <<"tool_call", call>>, <<"parsed_arguments", RawArguments(call)>>,
              <<"result", result>> >>)

\* The entry appended to tool_trace, lines 231-237.
TraceEntry(call, parsed_arguments, result) ==
    PyDict(<< <<"tool_call", call>>, <<"parsed_arguments", parsed_arguments>>,
              <<"result", result>> >>)

\* The function's entry: lines 196-201.
LoopStart(messages) ==
    /\ input' = messages
    /\ llm_messages' = <<SystemMessage>> \o messages
    /\ initial_len' = Len(messages) + 1
    /\ tool_trace' = <<>>
    /\ round' = 0
    /\ tool_calls' = <<>>
    /\ call_i' = 0
    /\ generated' = <<>>
    /\ error' = "none"
    /\ provider_calls' = 0
    /\ appended' = <<>>
    /\ requests' = <<>>

\* The return that raises when the last reply asked for tools.
LoopReturnRaisesWhenExhausted(messages) ==
    /\ generated' = ReturnedMessages(messages, initial_len)
    /\ pc' = IF DictGet(messages[Len(messages)], "role") = PyStr(<<"tool">>)
             THEN "raised" ELSE "returned"

\* return llm_messages[initial_len:], tool_trace
LoopReturn(messages) ==
    /\ generated' = ReturnedMessages(messages, initial_len)
    /\ pc' = "returned"

\* One iteration's head, lines 204-217: the provider call, the reply appended,
\* the break when it carries no tool calls.  An exception of
\* create_chat_completion leaves the function.
CallProvider(rich_responses, budget) ==
    /\ pc = "sending"
    /\ round < MaxRounds
    /\ provider_total < budget
    /\ \E outcome \in ProviderOutcomes(IF rich < MaxRich THEN rich_responses ELSE {}) :
         LET r == create_chat_completion(settings, outcome)
             assistant_message == AssistantMessage(r.response)
             calls == ToolCallsOf(assistant_message)
         IN /\ provider_calls' = provider_calls + 1
            /\ provider_total' = provider_total + 1
            /\ requests' = Append(requests, llm_messages)
            /\ net_calls' = net_calls + r.net_calls
            /\ round' = round + 1
            /\ IF r.exc # "none"
               THEN /\ error' = r.exc
                    /\ pc' = "raised"
                    /\ rich' = rich
                    /\ UNCHANGED <<llm_messages, appended, tool_calls, call_i, generated>>
               ELSE /\ llm_messages' = Append(llm_messages, assistant_message)
                    /\ appended' = Append(appended, assistant_message)
                    /\ rich' = IF outcome.rich THEN rich + 1 ELSE rich
                    /\ error' = error
                    /\ IF NoToolCalls(calls)
                       THEN /\ LoopReturn(llm_messages')
                            /\ UNCHANGED <<tool_calls, call_i>>
                       ELSE /\ tool_calls' = calls.v
                            /\ call_i' = 1
                            /\ pc' = "dispatching"
                            /\ UNCHANGED generated
    /\ UNCHANGED <<settings, notes, session, clock, chatVars, input, initial_len, tool_trace,
                   tool_run, envVars>>

\* One pass of "for call in tool_calls", lines 219-241: the call parsed and
\* dispatched, its trace entry and its tool message appended.  After the last
\* call the next iteration begins, or the function returns when range(6) is
\* used up.  An exception of run_tool leaves the function.
DispatchCall ==
    /\ pc = "dispatching"
    /\ call_i \in 1..Len(tool_calls)
    /\ \E db_ok \in StoreStates(Cat(Str(ToolName(CurrentCall(tool_calls, call_i))))),
          net \in NetStates(Cat(Str(ToolName(CurrentCall(tool_calls, call_i))))) :
         LET call == CurrentCall(tool_calls, call_i)
             tool_call_id == ToolCallId(call)
             tool_name == ToolName(call)
             parsed_arguments == safe_parse_tool_arguments(RawArguments(call))
             r == run_tool([notes |-> notes, ok |-> db_ok], tool_name, parsed_arguments,
                           [now |-> clock, serper_api_key |-> settings.serper_api_key,
                            net |-> net])
             message == tool_result_message(tool_call_id, r.result)
         IN /\ notes' = r.notes
            /\ net_calls' = net_calls + r.net_calls
            /\ clock' = IF r.ticked THEN clock + 1 ELSE clock
            /\ IF r.exc # "none"
               THEN /\ error' = r.exc
                    /\ pc' = "raised"
                    /\ UNCHANGED <<llm_messages, appended, tool_trace, call_i, generated>>
               ELSE /\ tool_trace' = Append(tool_trace, TraceEntry(call, parsed_arguments, r.result))
                    /\ llm_messages' = Append(llm_messages, message)
                    /\ appended' = Append(appended, message)
                    /\ call_i' = call_i + 1
                    /\ error' = error
                    /\ IF call_i < Len(tool_calls)
                       THEN pc' = "dispatching" /\ UNCHANGED generated
                       ELSE IF round < MaxRounds
                            THEN pc' = "sending" /\ UNCHANGED generated
                            ELSE LoopReturn(llm_messages')
    /\ UNCHANGED <<settings, session, chatVars, input, initial_len, round, tool_calls,
                   provider_calls, provider_total, rich, requests, tool_run, envVars>>

-----------------------------------------------------------------------------
(* main.py chat *)

RoleName(msg) ==
    LET role == DictGet(msg, "role") IN IF IsStr(role) THEN Cat(role.v) ELSE ""

\* A copy that keeps the message whole.
CleanMessageWhole(msg) == msg

\* The clean copy _sanitize_messages_for_llm makes of one message.
CleanMessage(msg) ==
    LET c0 == PyDict(<< <<"role", DictGet(msg, "role")>> >>)
        c1 == IF DictHas(msg, "content") THEN DictSet(c0, "content", DictGet(msg, "content"))
              ELSE c0
        c2 == IF RoleName(msg) = "assistant" /\ DictGet(msg, "tool_calls") # PyNone
              THEN DictSet(c1, "tool_calls", DictGet(msg, "tool_calls")) ELSE c1
    IN IF RoleName(msg) = "tool" /\ DictHas(msg, "tool_call_id")
       THEN DictSet(c2, "tool_call_id", DictGet(msg, "tool_call_id")) ELSE c2

RECURSIVE _sanitize_messages_for_llm(_)
_sanitize_messages_for_llm(messages) ==
    IF messages = <<>> THEN <<>>
    ELSE (IF RoleName(Head(messages)) \in {"system", "user", "assistant", "tool"}
          THEN <<CleanMessage(Head(messages))>> ELSE <<>>)
             \o _sanitize_messages_for_llm(Tail(messages))

\* _stamp_created_at at the instant now
_stamp_created_at(message, now) ==
    IF DictHas(message, "created_at") THEN message
    ELSE DictSet(message, "created_at", PyDatetime(now))

\* The texts a client posts as body.message.
T_hi == <<"h", "i">>
Bodies == { T_hi, <<" ">> \o T_milk \o <<"\n">> }

\* The session documents a request can find.
T_NewChat == <<"N", "e", "w", " ", "c", "h", "a", "t">>
NewSession == [title |-> T_NewChat, messages |-> <<>>, created_at |-> 0, updated_at |-> 0]
OldSession ==
    [title |-> T_Groceries,
     messages |-> << DictSet(Message("user", T_milk), "created_at", PyDatetime(0)),
                     DictSet(Message("assistant", <<"o", "k">>), "created_at", PyDatetime(0)) >>,
     created_at |-> 0, updated_at |-> 0]
Sessions == {NewSession, OldSession}

\* chat up to the call of _run_llm_with_tools, lines 249-272.
ChatBegin ==
    /\ pc \in {"idle", "done", "failed"}
    /\ turn < MaxTurns
    /\ \E body \in Bodies :
         LET user_message_content == Strip(body)
             prior_messages == session.messages
         IN /\ existing' = session
            /\ user_message' = DictSet(Message("user", user_message_content),
                                       "created_at", PyDatetime(clock))
            /\ LoopStart(_sanitize_messages_for_llm(
                   Append(prior_messages, Message("user", user_message_content))))
    /\ clock' = clock + 1
    /\ turn' = turn + 1
    /\ status' = 0
    /\ pc' = "sending"
    /\ UNCHANGED <<settings, notes, session, net_calls, provider_total, rich, tool_run, envVars>>

\* An update written back onto the document as the request read it.
UpdateTargetAsRead(stored, read) == read

\* db.sessions.update_one({"_id": session_id}, update): the update is applied
\* to the document as it is stored now, whatever the request read earlier.
UpdateTarget(stored, read) == stored

\* An update that sets the message list instead of pushing onto it.
_append_messagesOverwrite(doc, messages, maybe_new_title, now) ==
    [doc EXCEPT !.messages = messages,
                !.updated_at = now,
                !.title = IF maybe_new_title # <<>> THEN maybe_new_title ELSE @]

\* main.py _append_messages: $push the messages, $set updated_at and, when
\* given, the title.
_append_messages(doc, messages, maybe_new_title, now) ==
    [doc EXCEPT !.messages = @ \o messages,
                !.updated_at = now,
                !.title = IF maybe_new_title # <<>> THEN maybe_new_title ELSE @]

\* chat after _run_llm_with_tools returned, lines 276-291.
ChatPersist ==
    /\ pc = "returned"
    /\ LET n == Len(generated)
           new_messages == <<user_message>>
                             \o [i \in 1..n |-> _stamp_created_at(generated[i], clock + i - 1)]
           user_message_content == DictGet(user_message, "content").v
           maybe_new_title ==
               IF Cat(Lower(Strip(existing.title))) \in {"new chat", "untitled", ""}
               THEN SubSeq(user_message_content, 1, Min(60, Len(user_message_content)))
               ELSE <<>>
       IN /\ session' = _append_messages(UpdateTarget(session, existing), new_messages,
                                          maybe_new_title, clock + n)
          /\ clock' = clock + n + 1
    /\ status' = 200
    /\ pc' = "done"
    /\ UNCHANGED <<settings, notes, turn, existing, user_message, loopVars, net_calls,
                   provider_total, rich, tool_run, envVars>>

\* A failure path that stores the user message all the same.
ChatFailKeepsUserMessage ==
    /\ pc = "raised"
    /\ status' = 500
    /\ pc' = "failed"
    /\ session' = _append_messages(session, <<user_message>>, <<>>, clock)
    /\ UNCHANGED <<settings, notes, clock, turn, existing, user_message, loopVars,
                   net_calls, provider_total, rich, tool_run, envVars>>

\* A failure path that takes back the notes the turn created.
ChatFailRollsBack ==
    /\ pc = "raised"
    /\ status' = 500
    /\ pc' = "failed"
    /\ notes' = SelectSeq(notes, LAMBDA doc : CreatedAt(doc) < DictGet(user_message, "created_at").v)
    /\ UNCHANGED <<settings, session, clock, turn, existing, user_message, loopVars,
                   net_calls, provider_total, rich, tool_run, envVars>>

\* chat when _run_llm_with_tools raised: an OpenRouterError becomes
\* HTTPException(500), anything else is answered 500 by the server.
ChatFail ==
    /\ pc = "raised"
    /\ status' = 500
    /\ pc' = "failed"
    /\ UNCHANGED <<settings, notes, session, clock, turn, existing, user_message, loopVars,
                   net_calls, provider_total, rich, tool_run, envVars>>

-----------------------------------------------------------------------------
(* Specifications *)

SettingsSet ==
    [openrouter_api_key : {PyNone, PyStr(<<"sk-or">>)},
     serper_api_key : {PyNone, PyStr(<<"sk-serper">>)}]

\* tool_run before run_tool was called.
NoRun ==
    [n |-> 0, tool_name |-> "", raw |-> EmptyDict, arguments |-> EmptyDict, db_ok |-> TRUE,
     serper_api_key |-> PyNone, net |-> NetDown,
     before |-> <<>>, now |-> 0, r |-> Returned(PyNone, <<>>, 0, FALSE)]

\* applied before a helper was called.
NoApply == [fn |-> "", arg |-> PyNone, out |-> PyNone]

\* other before the second request came in.
NoOther ==
    [pc |-> "idle", existing |-> NewSession, user_message |-> PyNone, generated |-> <<>>]

InitCommon ==
    /\ settings \in SettingsSet
    /\ notes = <<>>
    /\ clock = 1
    /\ net_calls = 0
    /\ provider_total = 0
    /\ rich = 0
    /\ existing = NewSession
    /\ user_message = PyNone
    /\ status = 0
    /\ tool_trace = <<>>
    /\ round = 0
    /\ tool_calls = <<>>
    /\ call_i = 0
    /\ generated = <<>>
    /\ error = "none"
    /\ provider_calls = 0
    /\ appended = <<>>
    /\ requests = <<>>
    /\ tool_run = NoRun
    /\ applied = NoApply
    /\ other = NoOther

\* The server with a session stored, before a chat request.
Init ==
    /\ InitCommon
    /\ settings.serper_api_key = PyNone
    /\ session \in Sessions
    /\ turn = 0
    /\ pc = "idle"
    /\ input = <<>>
    /\ llm_messages = <<>>
    /\ initial_len = 0

Next ==
    \/ ChatBegin
    \/ CallProvider(ChatRichResponses, MaxProviderCalls)
    \/ DispatchCall
    \/ ChatPersist
    \/ ChatFail

Spec == Init /\ [][Next]_vars

\* The conversations _run_llm_with_tools is handed.
InputConversations ==
    { <<>>,
      <<Message("user", T_hi)>>,
      <<Message("system", <<"b", "e", " ", "b", "r", "i", "e", "f">>), SystemMessage,
        Message("user", T_milk)>> }

\* _run_llm_with_tools entered with any conversation.
InitLoop ==
    /\ InitCommon
    /\ session = NewSession
    /\ turn = 1
    /\ pc = "sending"
    /\ input \in InputConversations
    /\ llm_messages = <<SystemMessage>> \o input
    /\ initial_len = Len(llm_messages)

NextLoop == CallProvider(RichResponses, MaxRounds) \/ DispatchCall

SpecLoop == InitLoop /\ [][NextLoop]_vars

-----------------------------------------------------------------------------
(* Two chat requests on one session *)

\* The text the second request posts.
T_yo == <<"y", "o">>

\* The second request up to the call of _run_llm_with_tools, lines 249-266.
OtherBegin ==
    /\ other.pc = "idle"
    /\ other' = [pc |-> "sending", existing |-> session,
                 user_message |-> DictSet(Message("user", Strip(T_yo)), "created_at",
                                          PyDatetime(clock)),
                 generated |-> <<>>]
    /\ clock' = clock + 1
    /\ UNCHANGED <<settings, notes, session, pc, chatVars, loopVars, net_calls,
                   provider_total, rich, tool_run, applied>>

\* The second request's run of _run_llm_with_tools, lines 268-274, with a
\* provider that asks for no tool: one call, which fails or whose reply ends
\* the loop.
OtherRun ==
    /\ other.pc = "sending"
    /\ \E outcome \in {o \in ProviderOutcomes({}) : o.kind = "error" \/ o.json.exc = "none"} :
         LET r == create_chat_completion(settings, outcome)
             messages == _sanitize_messages_for_llm(
                             Append(other.existing.messages,
                                    Message("user", DictGet(other.user_message, "content").v)))
             assistant_message == AssistantMessage(r.response)
         IN /\ r.exc = "none" => NoToolCalls(ToolCallsOf(assistant_message))
            /\ net_calls' = net_calls + r.net_calls
            /\ other' = IF r.exc # "none"
                        THEN [other EXCEPT !.pc = "failed"]
                        ELSE [other EXCEPT
                                !.pc = "returned",
                                !.generated =
                                    ReturnedMessages(
                                        Append(<<SystemMessage>> \o messages, assistant_message),
                                        Len(messages) + 1)]
    /\ UNCHANGED <<settings, notes, session, clock, pc, chatVars, loopVars,
                   provider_total, rich, tool_run, applied>>

\* The second request after _run_llm_with_tools returned, lines 276-291.
OtherPersist ==
    /\ other.pc = "returned"
    /\ LET n == Len(other.generated)
           new_messages ==
               <<other.user_message>>
                 \o [i \in 1..n |-> _stamp_created_at(other.generated[i], clock + i - 1)]
           user_message_content == DictGet(other.user_message, "content").v
           maybe_new_title ==
               IF Cat(Lower(Strip(other.existing.title))) \in {"new chat", "untitled", ""}
               THEN SubSeq(user_message_content, 1, Min(60, Len(user_message_content)))
               ELSE <<>>
       IN /\ session' = _append_messages(UpdateTarget(session, other.existing), new_messages,
                                          maybe_new_title, clock + n)
          /\ clock' = clock + n + 1
    /\ other' = [other EXCEPT !.pc = "done"]
    /\ UNCHANGED <<settings, notes, pc, chatVars, loopVars, net_calls, provider_total, rich,
                   tool_run, applied>>

NextConc ==
    \/ ChatBegin
    \/ CallProvider({}, MaxProviderCalls)
    \/ DispatchCall
    \/ ChatPersist
    \/ ChatFail
    \/ OtherBegin
    \/ OtherRun
    \/ OtherPersist

SpecConc == Init /\ [][NextConc]_vars

-----------------------------------------------------------------------------
(* run_tool called directly *)

\* A key the caller leaves out.
Absent == [t |-> "absent", v |-> 0]

\* The argument dict of the keys whose value is given.
Arguments(pairs) == PyDict(SelectSeq(pairs, LAMBDA p : p[2] # Absent))

\* Values of a numeric limit argument: absent, null, unparsable text, a
\* numeral in text, zero, negative, above every maximum, in range, Infinity.
LimitValues ==
    { Absent, PyNone, PyStr(<<"a", "b", "c">>), PyStr(<<" ", "7">>), PyInt(0), PyInt(-3),
      PyInt(51), PyInt(5), PyFloat("inf") }

TagsValues ==
    { Absent, PyNone, PyList(<<PyStr(<<"a">>), PyStr(<<" ">>), PyInt(7)>>), PyInt(5),
      PyStr(<<"a", "b">>) }

T_tla == <<"t", "l", "a">>

\* The argument dicts each tool name is called with.
ToolArguments(name) ==
    CASE name = "create_note" ->
           { Arguments(<< <<"title", t>>, <<"content", c>> >>) :
               t \in {Absent, PyStr(T_Groceries), PyStr(<<" ">>)},
               c \in {Absent, PyStr(T_milk)} }
           \cup { Arguments(<< <<"title", PyStr(T_Groceries)>>, <<"content", PyStr(T_milk)>>,
                               <<"tags", g>> >>) : g \in TagsValues }
           \cup { Arguments(<< <<"title", PyStr(<<" ", "T", "L", "A", "\n">>)>>,
                               <<"content", PyStr(<<"S", "p", "e", "c", " ">>)>> >>) }
      [] name = "search_notes" ->
           { Arguments(<< <<"query", q>>, <<"limit", l>> >>) :
               q \in {Absent, PyStr(T_milk)}, l \in LimitValues }
           \cup { Arguments(<< <<"query", PyStr(<<"G", "R", "O", "C">>)>> >>) }
      [] name = "list_notes" -> { Arguments(<< <<"limit", l>> >>) : l \in LimitValues }
      [] name = "get_note" ->
           { Arguments(<< <<"note_id", i>> >>) :
               i \in {Absent, PyStr(<<"x", "y", "z">>), PyStr(OidStr(1)), PyStr(OidStr(9))} }
      [] name = "search_web" ->
           { Arguments(<< <<"query", q>>, <<"num_results", l>> >>) :
               q \in {Absent, PyStr(T_tla)},
               l \in {Absent, PyStr(<<"a", "b", "c">>), PyInt(0), PyInt(11), PyInt(3),
                      PyFloat("inf")} }
           \cup { Arguments(<< <<"query", PyStr(T_tla)>>, <<"type", y>> >>) :
                    y \in {PyStr(<<"N", "e", "w", "s">>), PyStr(<<"m", "a", "p", "s">>)} }
      [] OTHER -> { EmptyDict, Arguments(<< <<"limit", PyInt(5)>> >>) }

ToolNames ==
    {"create_note", "search_notes", "list_notes", "get_note", "get_server_time",
     "search_web", "search_gutenberg_books", "bogus", ""}

\* Raw arguments that are no mapping: no text at all, the empty text, text
\* that is no JSON, JSON that is no object, and an object in text.
T_LimitFive == <<"{", "\"", "limit", "\"", ":", " ", "5", "}">>
RawTexts ==
    { PyNone, PyStr(<<>>), ArgsNotJson, PyStr(<<"[", "1", "]">>), PyStr(<<"n", "u", "l", "l">>),
      PyStr(T_LimitFive) }

\* The raw arguments a call of name arrives with: a mapping, text that is no
\* JSON, and for list_notes the other texts.
RawArgumentsOf(name) ==
    ToolArguments(name) \cup {ArgsNotJson} \cup (IF name = "list_notes" THEN RawTexts ELSE {})

\* run_tool(db, tool_name, safe_parse_tool_arguments(raw)) called on a store
\* that answers or fails and a search service that behaves in one of
\* NetOutcomes.  A call that left the store as it was is followed by no other:
\* that one would meet the state the earlier call met.
CallRunTool ==
    /\ pc = "tool"
    /\ tool_run.n < MaxToolRuns
    /\ tool_run.n = 0 \/ tool_run.r.notes # tool_run.before
    /\ \E name \in ToolNames :
         \E raw \in RawArgumentsOf(name),
            db_ok \in StoreStates(name), net \in NetStatesLong(name) :
           LET arguments == safe_parse_tool_arguments(raw)
               r == run_tool([notes |-> notes, ok |-> db_ok], PyStr(<<name>>), arguments,
                             [now |-> clock, serper_api_key |-> settings.serper_api_key,
                              net |-> net])
           IN /\ tool_run' = [n |-> tool_run.n + 1, tool_name |-> name, raw |-> raw,
                              arguments |-> arguments, db_ok |-> db_ok,
                              serper_api_key |-> settings.serper_api_key, net |-> net,
                              before |-> notes, now |-> clock, r |-> r]
              /\ notes' = r.notes
              /\ net_calls' = net_calls + r.net_calls
              /\ clock' = IF r.ticked THEN clock + 1 ELSE clock
    /\ UNCHANGED <<settings, session, pc, chatVars, loopVars, provider_total, rich, envVars>>

InitTool ==
    /\ InitCommon
    /\ settings.openrouter_api_key = PyNone
    /\ session = NewSession
    /\ turn = 0
    /\ pc = "tool"
    /\ input = <<>>
    /\ llm_messages = <<>>
    /\ initial_len = 0

NextTool == CallRunTool

SpecTool == InitTool /\ [][NextTool]_vars

-----------------------------------------------------------------------------
(* _json_safe and _sanitize_messages_for_llm called directly *)

\* Bounds of the values and the message lists the helpers are called with.
MaxNest == 2            \* lists and dicts inside one another
MaxStored == 2          \* messages of a stored session

\* Values without a list or dict: None, a bool, an int, a str, an ObjectId,
\* a datetime.
Leaves == {PyNone, PyBool(TRUE), PyInt(7), PyStr(<<"a">>), PyOid(1), PyDatetime(2)}

RECURSIVE JsonValues(_)
\* The values of at most d lists and dicts inside one another.
JsonValues(d) ==
    IF d = 0 THEN Leaves
    ELSE LET inner == JsonValues(d - 1)
         IN inner \cup {PyList(<<>>), EmptyDict}
              \cup { PyList(<<x>>) : x \in inner }
              \cup { PyList(<<x, PyOid(1)>>) : x \in inner }
              \cup { PyDict(<< <<"_id", x>> >>) : x \in inner }
              \cup { PyDict(<< <<"title", PyStr(<<"a">>)>>, <<"created_at", x>> >>) :
                       x \in inner }

\* _json_safe(v).  One call in a behaviour: the helpers keep no state, a
\* second call would meet what the first met.
ApplyJsonSafe ==
    /\ pc = "pure"
    /\ applied = NoApply
    /\ \E v \in JsonValues(MaxNest) :
         applied' = [fn |-> "_json_safe", arg |-> v, out |-> JsonSafe(v)]
    /\ UNCHANGED <<settings, notes, session, clock, pc, chatVars, loopVars, net_calls,
                   provider_total, rich, tool_run, other>>

\* The messages a session document can hold: the four roles with and without
\* created_at, content, tool_calls and tool_call_id, a role that is none of
\* the four, a null role and no role, and fields of other names.
StoredMessages ==
    { DictSet(Message("user", T_milk), "created_at", PyDatetime(0)),
      DictSet(Message("system", T_hi), "name", PyStr(<<"n">>)),
      DictSet(Message("user", T_hi), "tool_calls", PyList(<<PlainCall>>)),
      DictSet(Message("assistant", <<"o", "k">>), "created_at", PyDatetime(1)),
      DictSet(DictSet(Message("assistant", <<>>), "tool_calls", PyList(<<PlainCall>>)),
              "refusal", PyNone),
      DictSet(DictSet(Message("assistant", <<>>), "tool_calls", PyNone),
              "tool_call_id", PyStr(<<"call_t">>)),
      PyDict(<< <<"role", PyStr(<<"assistant">>)>>, <<"created_at", PyDatetime(1)>> >>),
      DictSet(DictSet(Message("tool", <<"{", "}">>), "tool_call_id", PyStr(<<"call_t">>)),
              "created_at", PyDatetime(1)),
      Message("tool", <<"{", "}">>),
      Message("function", T_hi),
      DictSet(Message("developer", T_hi), "created_at", PyDatetime(1)),
      PyDict(<< <<"role", PyNone>>, <<"content", PyStr(T_hi)>> >>),
      PyDict(<< <<"content", PyStr(T_hi)>> >>) }

RECURSIVE StoredLogs(_)
\* The message lists of at most n of them.
StoredLogs(n) ==
    IF n = 0 THEN { <<>> }
    ELSE LET shorter == StoredLogs(n - 1)
         IN shorter \cup { Append(l, m) : l \in shorter, m \in StoredMessages }

\* _sanitize_messages_for_llm(messages)
ApplySanitize ==
    /\ pc = "pure"
    /\ applied = NoApply
    /\ \E messages \in StoredLogs(MaxStored) :
         applied' = [fn |-> "_sanitize_messages_for_llm", arg |-> PyList(messages),
                     out |-> PyList(_sanitize_messages_for_llm(messages))]
    /\ UNCHANGED <<settings, notes, session, clock, pc, chatVars, loopVars, net_calls,
                   provider_total, rich, tool_run, other>>

InitPure ==
    /\ InitCommon
    /\ settings.openrouter_api_key = PyNone
    /\ settings.serper_api_key = PyNone
    /\ session = NewSession
    /\ turn = 0
    /\ pc = "pure"
    /\ input = <<>>
    /\ llm_messages = <<>>
    /\ initial_len = 0

NextPure == ApplyJsonSafe \/ ApplySanitize

SpecPure == InitPure /\ [][NextPure]_vars

-----------------------------------------------------------------------------
(* Properties of _run_llm_with_tools, checked under SpecLoop unless said *)

IsAssistantMsg(m) == RoleName(m) = "assistant"
IsToolMsg(m) == RoleName(m) = "tool"

\* The tool calls an assistant message carries.
CallsOfMsg(m) == ToolCallsOf(m).v

\* The replies the provider gave in this run.
AssistantCount == Cardinality({i \in 1..Len(appended) : IsAssistantMsg(appended[i])})

\* The run left _run_llm_with_tools through an exception of run_tool.
RaisedInDispatch == pc = "raised" /\ call_i \in 1..Len(tool_calls)

\* Every provider call of the run was answered, and answered with tool calls.
EveryRoundRequestsTools ==
    /\ provider_calls >= 1
    /\ AssistantCount = provider_calls
    /\ \A i \in 1..Len(appended) :
         IsAssistantMsg(appended[i]) => CallsOfMsg(appended[i]) # <<>>

\* C1: a run makes at most 6 provider calls, and a run whose every reply
\* carries a tool call ends returned, after exactly 6 provider calls, with
\* the messages it accumulated.
C1_SixRoundsThenReturn ==
    /\ provider_calls <= MaxRounds
    /\ (EveryRoundRequestsTools /\ pc \in {"returned", "raised"})
          => (pc = "returned" /\ provider_calls = MaxRounds /\ generated = appended)

\* C2: when the first reply carries no tool calls (the key absent, null or
\* an empty list) the run is over after one provider call: it returned that
\* one assistant message and an empty trace.
C2_NoToolCallsOneRound ==
    (Len(appended) >= 1 /\ ~Truthy(DictGet(appended[1], "tool_calls")))
      => /\ pc = "returned"
         /\ provider_calls = 1
         /\ generated = <<appended[1]>>
         /\ IsAssistantMsg(generated[1])
         /\ tool_trace = <<>>

\* A run on a conversation of the caller whose first reply has tool_calls null.
C2_Witness ==
    /\ pc = "returned"
    /\ provider_calls = 1
    /\ input # <<>>
    /\ DictHas(generated[1], "tool_calls")
    /\ DictGet(generated[1], "tool_calls") = PyNone

\* C3: every tool message of the run carries the id of a tool call that an
\* earlier assistant message of the run emitted, and a round that is through
\* appended one tool message for each of its requests, the i-th with the id of
\* the i-th request.
C3_ToolMessageIdsMatchRequests ==
    /\ \A j \in (initial_len + 1)..Len(llm_messages) :
         IsToolMsg(llm_messages[j])
           => \E k \in (initial_len + 1)..(j - 1) :
                /\ IsAssistantMsg(llm_messages[k])
                /\ \E c \in 1..Len(CallsOfMsg(llm_messages[k])) :
                     DictGet(CallsOfMsg(llm_messages[k])[c], "id")
                       = DictGet(llm_messages[j], "tool_call_id")
    /\ \A k \in (initial_len + 1)..Len(llm_messages) :
         (IsAssistantMsg(llm_messages[k]) /\ pc \in {"sending", "returned", "raised"})
           => LET calls == CallsOfMsg(llm_messages[k]) IN
              \A i \in 1..Len(calls) :
                /\ k + i <= Len(llm_messages)
                /\ IsToolMsg(llm_messages[k + i])
                /\ DictGet(llm_messages[k + i], "tool_call_id") = DictGet(calls[i], "id")

\* C4 (SpecTool): run_tool never raises; whatever the tool name, the
\* arguments, the store and the search service, it returns a payload that
\* carries an "ok" flag.
C4_RunToolNeverRaises ==
    tool_run.n > 0
      => /\ tool_run.r.exc = "none"
         /\ IsDict(tool_run.r.result)
         /\ DictHas(tool_run.r.result, "ok")

\* C5 (Spec): a chat turn whose run raised is answered with an error
\* status, and the session document is the one the turn found: no message
\* appended, title and updated_at as they were.
C5_FailedTurnLeavesSession ==
    /\ pc \in {"raised", "failed"} => session = existing
    /\ pc = "failed" => status >= 400

\* A turn that failed on a provider error after a tool had run, on a session
\* that already held messages.
C5_Witness ==
    /\ pc = "failed"
    /\ error = "OpenRouterError"
    /\ tool_trace # <<>>
    /\ session.messages # <<>>
    /\ status = 500

\* C6 (Spec): create_chat_completion raises nothing but OpenRouterError:
\* without a credential it does so before any request is sent, and a
\* transport failure or an error status leaves it as OpenRouterError too.
C6_SingleProviderErrorKind ==
    /\ (pc \in {"raised", "failed"} /\ ~Truthy(settings.openrouter_api_key))
          => (error = "OpenRouterError" /\ net_calls = 0)
    /\ (pc \in {"raised", "failed"} /\ ~(call_i \in 1..Len(tool_calls)))
          => error \in {"OpenRouterError", "JSONDecodeError"}

\* The tool messages that directly follow position k of msgs answer the
\* calls of the assistant message at k, one each and in their order, as far
\* as msgs goes.
AnsweredInOrder(msgs, k) ==
    LET calls == CallsOfMsg(msgs[k]) IN
    /\ \A i \in 1..Len(calls) :
         k + i <= Len(msgs)
           => /\ IsToolMsg(msgs[k + i])
              /\ DictGet(msgs[k + i], "tool_call_id") = ToolCallId(calls[i])
    /\ k + Len(calls) < Len(msgs) => IsAssistantMsg(msgs[k + Len(calls) + 1])

\* All of them are there.
FullyAnswered(msgs, k) == k + Len(CallsOfMsg(msgs[k])) <= Len(msgs)

\* C7: the messages of a run are assistant replies, each directly followed
\* by the tool messages of its calls in the order of the calls and then by
\* the next reply; and whenever a provider call can be issued every call
\* of every earlier reply has its tool message.
C7_RoundsInOrder ==
    /\ Len(appended) >= 1 => IsAssistantMsg(appended[1])
    /\ \A k \in 1..Len(appended) :
         IsAssistantMsg(appended[k])
           => /\ AnsweredInOrder(appended, k)
              /\ pc = "sending" => FullyAnswered(appended, k)
    /\ llm_messages = <<SystemMessage>> \o input \o appended

\* A round of three calls went through and the next reply was appended.
C7_Witness ==
    /\ Len(appended) >= 5
    /\ Len(CallsOfMsg(appended[1])) = 3
    /\ ToolCallId(CallsOfMsg(appended[1])[1]) # ToolCallId(CallsOfMsg(appended[1])[2])
    /\ IsAssistantMsg(appended[5])

\* C8: what the run returns is what it appended, in that order: the system
\* instruction and the caller's conversation, whatever it holds, are cut off.
C8_ReturnsWhatWasAppended ==
    pc = "returned"
      => /\ generated = appended
         /\ <<SystemMessage>> \o input \o generated = llm_messages

\* A run on a conversation that holds system messages returned a reply, tool
\* messages and a final reply.
C8_Witness ==
    /\ pc = "returned"
    /\ \E i \in 1..Len(input) : RoleName(input[i]) = "system"
    /\ Len(generated) >= 3
    /\ \E i \in 1..Len(generated) : IsToolMsg(generated[i])

\* The provider answered in each of the 6 rounds and no tool raised.
BudgetExhausted ==
    /\ AssistantCount = MaxRounds
    /\ pc # "dispatching"
    /\ ~RaisedInDispatch

\* C9: a run that used up its 6 rounds returned, without an error, what it
\* accumulated; and in whatever a run returns, every tool call of every
\* assistant message, the sixth round's too, has its tool message.
C9_ExhaustedRunReturnsAnswered ==
    /\ BudgetExhausted => (pc = "returned" /\ error = "none" /\ generated = appended)
    /\ pc = "returned"
         => \A k \in 1..Len(generated) :
              IsAssistantMsg(generated[k])
                => (AnsweredInOrder(generated, k) /\ FullyAnswered(generated, k))

\* A run returned after the sixth reply asked for tools once more.
C9_Witness ==
    /\ pc = "returned"
    /\ provider_calls = MaxRounds
    /\ IsToolMsg(generated[Len(generated)])
    /\ Len(tool_trace) >= MaxRounds

\* The limit a call of a tool works with.
EffectiveLimit(name, arguments) ==
    IF name = "search_web" THEN _clamp_int(DictGet(arguments, "num_results"), 1, 10, 5)
    ELSE NoteLimit(arguments)

\* C10 (SpecTool): a numeric limit is clamped and never rejected: the
\* call of search_notes, list_notes or search_web does not raise, and the
\* limit it works with is inside [1, 50], or [1, 10] for search_web.
C10_LimitsClampedNeverRejected ==
    (tool_run.n > 0 /\ tool_run.tool_name \in {"search_notes", "list_notes", "search_web"}
       /\ tool_run.db_ok)
      => LET lim == EffectiveLimit(tool_run.tool_name, tool_run.arguments) IN
         /\ tool_run.r.exc \notin {"ValueError", "TypeError", "OverflowError"}
         /\ lim.exc = "none"
         /\ lim.val >= 1
         /\ lim.val <= (IF tool_run.tool_name = "search_web" THEN 10 ELSE 50)

-----------------------------------------------------------------------------
(* Properties of the tools, checked under SpecTool unless said *)

RegisteredTools ==
    {"create_note", "search_notes", "list_notes", "get_note", "get_server_time", "search_web"}

\* The sentinel mapping for raw text with the given _parse_error.
Sentinel(kind, raw) ==
    PyDict(<< <<"_parse_error", PyStr(<<kind>>)>>, <<"_raw", raw>> >>)

\* The call of run_tool returned a payload with ok = false.
ReturnedNotOk ==
    /\ tool_run.r.exc = "none"
    /\ IsDict(tool_run.r.result)
    /\ DictGet(tool_run.r.result, "ok") = PyBool(FALSE)

\* The call of run_tool touched neither the note store nor the network.
NoSideEffect == tool_run.r.notes = tool_run.before /\ tool_run.r.net_calls = 0

\* C11: raw arguments that are no JSON reach the handler as the sentinel
\* mapping, and the handler of every registered tool answers with an ok =
\* false payload, without raising and without a side effect.
C11_BadJsonIsValidationError ==
    (tool_run.n > 0 /\ tool_run.raw = ArgsNotJson /\ tool_run.tool_name \in RegisteredTools
       /\ tool_run.db_ok)
      => /\ tool_run.arguments = Sentinel("invalid_json", ArgsNotJson)
         /\ ReturnedNotOk
         /\ NoSideEffect

T_UnknownBogus == "{\"ok\": false, \"error\": \"unknown tool: bogus\"}"

\* C13 (SpecLoop): dispatching a call whose name is no registered tool
\* leaves the note store as it is and does not raise: the tool message with
\* {ok: false, error: "unknown tool: <name>"} is appended, and after the
\* round's last call the next provider call is due.
C13_UnknownToolGoesOn ==
    [][ (pc = "dispatching" /\ call_i \in 1..Len(tool_calls)
           /\ Cat(Str(ToolName(CurrentCall(tool_calls, call_i)))) = "bogus")
          => /\ notes' = notes
             /\ pc' # "raised"
             /\ Len(appended') = Len(appended) + 1
             /\ IsToolMsg(appended'[Len(appended')])
             /\ Cat(DictGet(appended'[Len(appended')], "content").v) = T_UnknownBogus
             /\ DictGet(tool_trace'[Len(tool_trace')], "result")
                  = ErrorPayload(<<"unknown tool: ", "bogus">>)
             /\ (call_i = Len(tool_calls) /\ round < MaxRounds) => pc' = "sending" ]_vars

\* The call of an unknown tool was answered and the provider replied again.
C13_Witness ==
    /\ Len(appended) >= 3
    /\ Len(CallsOfMsg(appended[1])) = 1
    /\ IsToolMsg(appended[2])
    /\ Cat(DictGet(appended[2], "content").v) = T_UnknownBogus
    /\ IsAssistantMsg(appended[3])

\* The error text of the payload run_tool returned, and its first piece.
ErrorText == DictGet(tool_run.r.result, "error").v

\* search_web sent its request.
RequestSent == tool_run.n > 0 /\ tool_run.tool_name = "search_web" /\ tool_run.r.net_calls = 1

\* C14: search_web answers a failed request, an error status and a body that
\* is no JSON with an ok = false payload each, and the three payloads differ
\* in their error text; run_tool returns in each case.
C14_SearchWebFaultsInline ==
    RequestSent
      => /\ tool_run.net.kind = "error"
              => (ReturnedNotOk /\ ErrorText[1] = "serper request failed: ")
         /\ (tool_run.net.kind = "response" /\ tool_run.net.status >= 400)
              => /\ ReturnedNotOk
                 /\ ErrorText = <<"serper returned an error">>
                 /\ DictGet(tool_run.r.result, "status") = PyInt(tool_run.net.status)
         /\ (tool_run.net.kind = "response" /\ tool_run.net.status < 400
                /\ tool_run.net.json.exc # "none")
              => (ReturnedNotOk /\ ErrorText[1] = "invalid serper json: ")

\* search_web met a body that is no JSON.
C14_Witness ==
    /\ RequestSent
    /\ tool_run.net.status = 200
    /\ tool_run.net.json.exc # "none"
    /\ ReturnedNotOk

\* The text of a required string argument after trimming, as the handler of
\* the call reads it.
RequiredText(key) ==
    IF tool_run.tool_name = "search_web"
    THEN Strip(Str(Or(DictGet(tool_run.arguments, key), PyStr(<<>>))))
    ELSE Strip(Str(DictGetOr(tool_run.arguments, key, PyStr(<<>>))))

\* C15: a handler whose required string argument is missing or empty after
\* trimming returns {ok: false, error: "... is required"} naming the
\* argument and has no side effect (search_web: with its key configured).
C15_ValidateBeforeAct ==
    /\ (tool_run.n > 0 /\ tool_run.tool_name = "create_note"
          /\ (RequiredText("title") = <<>> \/ RequiredText("content") = <<>>))
         => (/\ ReturnedNotOk
             /\ ErrorText = <<"title and content are required">>
             /\ NoSideEffect)
    /\ (tool_run.n > 0 /\ RequiredText("query") = <<>>
          /\ \/ tool_run.tool_name = "search_notes"
             \/ tool_run.tool_name = "search_web" /\ Truthy(tool_run.serper_api_key))
         => (/\ ReturnedNotOk
             /\ ErrorText = <<"query is required">>
             /\ NoSideEffect)

\* The note_id of a get_note call as the handler reads it.
NoteIdText == Strip(Str(DictGetOr(tool_run.arguments, "note_id", PyStr(<<>>))))

\* The stored notes with the id that text spells.
NotesWithId(text) ==
    {i \in 1..Len(tool_run.before) :
       OidStr(DictGet(tool_run.before[i], "_id").v) = Lower(text)}

\* C16: get_note answers a note_id that is no ObjectId text (24 hex digits)
\* with "invalid note_id", also when the store is down; a valid id of no
\* stored note with "not found"; a valid id of a stored note with that note.
C16_GetNoteFailuresDistinct ==
    (tool_run.n > 0 /\ tool_run.tool_name = "get_note")
      => LET valid == Len(NoteIdText) = 24
                        /\ \A i \in 1..Len(NoteIdText) : NoteIdText[i] \in HexChars
         IN /\ ~valid => (/\ ReturnedNotOk
                          /\ ErrorText = <<"invalid note_id">>
                          /\ NoSideEffect)
            /\ (valid /\ tool_run.db_ok /\ NotesWithId(NoteIdText) = {})
                 => (ReturnedNotOk /\ ErrorText = <<"not found">>)
            /\ (valid /\ tool_run.db_ok /\ NotesWithId(NoteIdText) # {})
                 => /\ tool_run.r.exc = "none"
                    /\ DictGet(tool_run.r.result, "ok") = PyBool(TRUE)
                    /\ DictGet(DictGet(tool_run.r.result, "note"), "id")
                         = PyStr(Lower(NoteIdText))
                    /\ \E i \in NotesWithId(NoteIdText) :
                         DictGet(DictGet(tool_run.r.result, "note"), "title")
                           = DictGet(tool_run.before[i], "title")

\* get_note found a stored note.
C16_Witness ==
    /\ tool_run.n > 1
    /\ tool_run.tool_name = "get_note"
    /\ NotesWithId(NoteIdText) # {}
    /\ tool_run.r.exc = "none"
    /\ DictGet(tool_run.r.result, "ok") = PyBool(TRUE)

\* q occurs in text, letter case aside.
OccursIn(q, text) ==
    \E i \in 1..(Len(text) - Len(q) + 1) : Lower(SubSeq(text, i, i + Len(q) - 1)) = Lower(q)

\* The stored note's title, content or some tag holds q.
DocHolds(doc, q) ==
    \/ OccursIn(q, DictGet(doc, "title").v)
    \/ OccursIn(q, DictGet(doc, "content").v)
    \/ \E t \in 1..Len(DictGet(doc, "tags").v) : OccursIn(q, DictGet(doc, "tags").v[t].v)

\* The notes a query call returned, and for each the stored note it shows.
ReturnedNotes == DictGet(tool_run.r.result, "notes").v
StoredOf(view) ==
    CHOOSE i \in 1..Len(tool_run.before) :
      PyStr(OidStr(DictGet(tool_run.before[i], "_id").v)) = DictGet(view, "id")

\* The returned notes are wanted notes, each once, shown as stored, newest
\* first, and as many of the newest wanted notes as the limit allows.
NewestOf(wanted, lim) ==
    LET res == ReturnedNotes IN
    /\ Len(res) = Min(lim, Cardinality(wanted))
    /\ \A k \in 1..Len(res) :
         /\ \E i \in wanted :
              PyStr(OidStr(DictGet(tool_run.before[i], "_id").v)) = DictGet(res[k], "id")
         /\ DictGet(res[k], "title") = DictGet(tool_run.before[StoredOf(res[k])], "title")
         /\ DictGet(res[k], "content") = DictGet(tool_run.before[StoredOf(res[k])], "content")
         /\ DictGet(res[k], "tags") = DictGet(tool_run.before[StoredOf(res[k])], "tags")
    /\ \A k, l \in 1..Len(res) : k # l => DictGet(res[k], "id") # DictGet(res[l], "id")
    /\ \A k \in 1..(Len(res) - 1) :
         CreatedAt(tool_run.before[StoredOf(res[k])])
           >= CreatedAt(tool_run.before[StoredOf(res[k + 1])])
    /\ \A i \in wanted, k \in 1..Len(res) :
         (\A l \in 1..Len(res) : StoredOf(res[l]) # i)
           => CreatedAt(tool_run.before[i]) <= CreatedAt(tool_run.before[StoredOf(res[k])])

QueryReturned ==
    /\ tool_run.n > 0
    /\ tool_run.r.exc = "none"
    /\ DictGet(tool_run.r.result, "ok") = PyBool(TRUE)

\* C17: on a store filled by create_note calls, a search_notes that succeeds
\* returns the notes whose title, content or a tag holds the query, letter
\* case aside, newest first and up to the limit; a list_notes that succeeds
\* returns the newest notes up to the limit, newest first.
C17_QueriesNewestFirst ==
    /\ (QueryReturned /\ tool_run.tool_name = "search_notes")
         => NewestOf({i \in 1..Len(tool_run.before) :
                        DocHolds(tool_run.before[i], RequiredText("query"))},
                     EffectiveLimit("search_notes", tool_run.arguments).val)
    /\ (QueryReturned /\ tool_run.tool_name = "list_notes")
         => NewestOf(1..Len(tool_run.before),
                     EffectiveLimit("list_notes", tool_run.arguments).val)

\* A search in other letter case on a store of two notes returned the one
\* that holds the query.
C17_Witness ==
    /\ QueryReturned
    /\ tool_run.tool_name = "search_notes"
    /\ RequiredText("query") = <<"G", "R", "O", "C">>
    /\ Len(tool_run.before) = 2
    /\ Len(ReturnedNotes) = 1

\* The note a successful create_note returned, and the tags it was given.
CreatedNote == DictGet(tool_run.r.result, "note")
GivenTags == Or(DictGet(tool_run.arguments, "tags"), PyList(<<>>))

\* The call of get_note with the returned id that follows on the store as
\* create_note left it.
FollowingGetNote ==
    run_tool([notes |-> tool_run.r.notes, ok |-> TRUE], PyStr(<<"get_note">>),
             PyDict(<< <<"note_id", DictGet(CreatedNote, "id")>> >>),
             [now |-> tool_run.now + 1, serper_api_key |-> tool_run.serper_api_key,
              net |-> tool_run.net])

\* C18: a create_note that succeeds adds one note to the store and returns
\* it: the new id as text, the title and content trimmed, the tags trimmed
\* with the empty ones dropped, and created_at; get_note with that id then
\* returns the note with the same id, title, content and tags.
C18_CreateNoteReturnsNote ==
    (QueryReturned /\ tool_run.tool_name = "create_note")
      => LET after == tool_run.r.notes
             stored == after[Len(after)]
             trimmed == [i \in 1..Len(GivenTags.v) |-> Strip(Str(GivenTags.v[i]))]
             kept == SelectSeq(trimmed, LAMBDA t : t # <<>>)
             got == DictGet(FollowingGetNote.result, "note")
         IN /\ Len(after) = Len(tool_run.before) + 1
            /\ SubSeq(after, 1, Len(tool_run.before)) = tool_run.before
            /\ IsStr(DictGet(CreatedNote, "id"))
            /\ DictGet(CreatedNote, "id") = PyStr(OidStr(DictGet(stored, "_id").v))
            /\ \A i \in 1..Len(tool_run.before) :
                 DictGet(tool_run.before[i], "_id") # DictGet(stored, "_id")
            /\ DictGet(CreatedNote, "title") = PyStr(RequiredText("title"))
            /\ DictGet(CreatedNote, "content") = PyStr(RequiredText("content"))
            /\ IsList(GivenTags)
                 => DictGet(CreatedNote, "tags") = PyList([i \in 1..Len(kept) |-> PyStr(kept[i])])
            /\ DictGet(CreatedNote, "created_at") = PyStr(IsoFormat(tool_run.now))
            /\ FollowingGetNote.exc = "none"
            /\ DictGet(FollowingGetNote.result, "ok") = PyBool(TRUE)
            /\ \A key \in {"id", "title", "content", "tags"} :
                 DictGet(got, key) = DictGet(CreatedNote, key)

\* A second note was created from a title and content with blanks around
\* them, after one whose tags held an empty entry.
C18_Witness ==
    /\ QueryReturned
    /\ tool_run.tool_name = "create_note"
    /\ Len(tool_run.before) = 1
    /\ DictGet(tool_run.before[1], "tags") = PyList(<<PyStr(<<"a">>), PyStr(<<"7">>)>>)
    /\ DictGet(tool_run.arguments, "title") = PyStr(<<" ", "T", "L", "A", "\n">>)
    /\ DictGet(CreatedNote, "title") = PyStr(<<"T", "L", "A">>)

\* C19: without a configured search key search_web returns an ok = false
\* payload that names the missing key and sends no request, whatever its
\* arguments.
C19_NoKeyNoRequest ==
    (tool_run.n > 0 /\ tool_run.tool_name = "search_web" /\ ~Truthy(tool_run.serper_api_key))
      => /\ ReturnedNotOk
         /\ ErrorText = <<"SERPER_API_KEY is not set (add it to backend/.env).">>
         /\ NoSideEffect

\* search_web was called with a query and without a key.
C19_Witness ==
    /\ tool_run.n > 0
    /\ tool_run.tool_name = "search_web"
    /\ ~Truthy(tool_run.serper_api_key)
    /\ RequiredText("query") = T_tla
    /\ ReturnedNotOk

\* The results of a successful search_web.
WebResultsReturned == DictGet(tool_run.r.result, "results").v

\* C20: a successful search_web returns at most 10 results and at most
\* num_results as clamped, each with a snippet of at most 400 characters and
\* a title of at most 200, the marker of a cut text counted.
C20_ResultsCapped ==
    (QueryReturned /\ tool_run.tool_name = "search_web")
      => /\ Len(WebResultsReturned) <= 10
         /\ Len(WebResultsReturned) <= EffectiveLimit("search_web", tool_run.arguments).val
         /\ \A k \in 1..Len(WebResultsReturned) :
              /\ Len(DictGet(WebResultsReturned[k], "snippet").v) <= 400
              /\ Len(DictGet(WebResultsReturned[k], "title").v) <= 200

-----------------------------------------------------------------------------
(* Properties of the pure helpers, checked under SpecPure *)

\* C21: _json_safe applied to its own result changes nothing, and its result
\* holds no ObjectId and no datetime at any depth.
C21_JsonSafeIdempotent ==
    applied.fn = "_json_safe"
      => /\ JsonSafe(applied.out) = applied.out
         /\ JsonSerializable(applied.out)

\* _json_safe was given a list that holds a dict whose _id is an ObjectId,
\* and returned it with the id as text.
C21_Witness ==
    /\ applied.fn = "_json_safe"
    /\ applied.arg = PyList(<<PyDict(<< <<"_id", PyOid(1)>> >>)>>)
    /\ applied.out = PyList(<<PyDict(<< <<"_id", PyStr(OidStr(1))>> >>)>>)

-----------------------------------------------------------------------------
(* Properties of the session log, checked under Spec unless said *)

\* stored is the generated message g as _stamp_created_at stores it: g itself
\* when it carries created_at, else g with the instant of storing added.
StoredAs(stored, g) ==
    IF DictHas(g, "created_at") THEN stored = g
    ELSE /\ DictGet(stored, "created_at").t = "datetime"
         /\ stored = DictSet(g, "created_at", DictGet(stored, "created_at"))

\* The stored log after a step is the log before it followed by the user
\* message and the generated messages in the order the loop returned them.
TurnAppended ==
    LET before == Len(session.messages)
    IN /\ Len(session'.messages) = before + 1 + Len(generated)
       /\ SubSeq(session'.messages, 1, before) = session.messages
       /\ session'.messages[before + 1] = user_message
       /\ \A i \in 1..Len(generated) : StoredAs(session'.messages[before + 1 + i], generated[i])

\* C22: every step leaves the stored log as a prefix of the log after it;
\* the session document changes only in the step that ends a successful turn,
\* after the loop returned, and that step appends the user message followed
\* by the generated messages in loop order; no step of the loop and no
\* failing turn writes the session.
C22_LogAppendOnly ==
    [][ /\ Len(session'.messages) >= Len(session.messages)
        /\ SubSeq(session'.messages, 1, Len(session.messages)) = session.messages
        /\ (session' # session) => (pc = "returned" /\ pc' = "done")
        /\ (pc = "returned" /\ pc' = "done") => TurnAppended ]_vars

\* A second turn ended well on a session that held messages: the log read at
\* its start is followed by the user message, a reply with tool calls, their
\* tool messages and the final reply.
C22_Witness ==
    /\ pc = "done"
    /\ turn = 2
    /\ Len(existing.messages) >= 2
    /\ Len(session.messages) >= Len(existing.messages) + 4
    /\ SubSeq(session.messages, 1, Len(existing.messages)) = existing.messages
    /\ IsToolMsg(session.messages[Len(existing.messages) + 3])

-----------------------------------------------------------------------------
(* Properties of the tool trace, checked under SpecLoop *)

RECURSIVE RequestedCalls(_)
\* The tool calls the messages carry, in the order of the messages.
RequestedCalls(msgs) ==
    IF msgs = <<>> THEN <<>> ELSE CallsOfMsg(Head(msgs)) \o RequestedCalls(Tail(msgs))

\* The tool messages among the returned ones, in their order.
ReturnedToolMessages == SelectSeq(generated, IsToolMsg)

\* C23: when the loop has returned, the trace has one entry for each tool
\* message of the returned sequence, in dispatch order: the i-th entry holds
\* the i-th requested call, the arguments as parsed from it, and the result
\* whose JSON text is the content of the i-th tool message.
C23_TraceMatchesToolMessages ==
    pc = "returned"
      => /\ Len(tool_trace) = Len(ReturnedToolMessages)
         /\ Len(tool_trace) = Len(RequestedCalls(generated))
         /\ \A i \in 1..Len(tool_trace) :
              LET entry == tool_trace[i]
                  call == RequestedCalls(generated)[i]
              IN /\ entry.v = << <<"tool_call", call>>,
                                 <<"parsed_arguments",
                                   safe_parse_tool_arguments(RawArguments(call))>>,
                                 <<"result", DictGet(entry, "result")>> >>
                 /\ DictGet(ReturnedToolMessages[i], "content")
                      = PyStr(JsonDumps(JsonSafe(DictGet(entry, "result"))))

\* The loop returned after three dispatched calls, one of them with
\* arguments that were no JSON.
C23_Witness ==
    /\ pc = "returned"
    /\ Len(tool_trace) = 3
    /\ DictHas(DictGet(tool_trace[2], "parsed_arguments"), "_parse_error")
    /\ DictGet(DictGet(tool_trace[1], "result"), "ok") = PyBool(TRUE)

-----------------------------------------------------------------------------
(* Properties of the tool set, checked under SpecTool *)

\* C24: the book search search_gutenberg_books is among the declarations
\* handed to the provider, and dispatching it reaches a handler: the call
\* does not return the "unknown tool" payload.
C24_BookSearchRegistered ==
    (tool_run.n > 0 /\ tool_run.tool_name = "search_gutenberg_books")
      => /\ \E i \in 1..Len(TOOLS) : TOOLS[i] = "search_gutenberg_books"
         /\ ~(ReturnedNotOk
                /\ ErrorText = <<"unknown tool: ", "search_gutenberg_books">>)

-----------------------------------------------------------------------------
(* Properties of what the provider is handed, checked under SpecLoop *)

\* short is a proper start of long.
StrictPrefix(short, long) ==
    Len(short) < Len(long) /\ SubSeq(long, 1, Len(short)) = short

\* C25: every list handed to the provider is the system instruction, then
\* the caller's conversation as given, then the messages appended so far;
\* each round's list strictly extends the one of the round before; and every
\* provider call that returned is followed by the assistant reply, also when
\* the reply has no text or the response no choice.
C25_RequestsGrowByAppending ==
    /\ \A k \in 1..Len(requests) :
         /\ requests[k][1] = SystemMessage
         /\ SubSeq(requests[k], 2, Len(input) + 1) = input
         /\ Len(requests[k]) >= Len(input) + 1
         /\ SubSeq(requests[k], Len(input) + 2, Len(requests[k]))
              = SubSeq(appended, 1, Len(requests[k]) - Len(input) - 1)
         /\ k > 1 => /\ StrictPrefix(requests[k - 1], requests[k])
                     /\ IsAssistantMsg(requests[k][Len(requests[k - 1]) + 1])
    /\ llm_messages = <<SystemMessage>> \o input \o appended
    /\ (Len(requests) > 0 /\ error = "none")
         => /\ StrictPrefix(requests[Len(requests)], llm_messages)
            /\ IsAssistantMsg(llm_messages[Len(requests[Len(requests)]) + 1])

\* The provider was called twice on a conversation that holds system
\* messages of its own, and its second response had no message: the empty
\* assistant message was appended.
C25_Witness ==
    /\ pc = "returned"
    /\ Len(requests) = 2
    /\ Len(input) = 3
    /\ Len(requests[2]) > Len(requests[1]) + 1
    /\ appended[Len(appended)] = Message("assistant", <<>>)

-----------------------------------------------------------------------------
(* Properties of two requests on one session, checked under SpecConc *)

\* block is a user message followed by the generated messages as stored.
IsBlock(block, um, gen) ==
    /\ Len(block) = 1 + Len(gen)
    /\ block[1] = um
    /\ \A i \in 1..Len(gen) : StoredAs(block[1 + i], gen[i])

\* Both requests read the same log and both have stored their turn.
BothStored ==
    /\ pc = "done"
    /\ other.pc = "done"
    /\ other.existing.messages = existing.messages

\* C26: when two requests read the session before either wrote and both
\* have completed, the stored log is the log they read followed by the two
\* turns' blocks, in either order, each block whole and in its own order: no
\* message of either turn is lost.
C26_InterleavedTurnsBothKept ==
    BothStored
      => LET base == Len(existing.messages)
             mine == 1 + Len(generated)
             theirs == 1 + Len(other.generated)
             log == session.messages
             Part(from, n) == SubSeq(log, from + 1, from + n)
         IN /\ Len(log) = base + mine + theirs
            /\ SubSeq(log, 1, base) = existing.messages
            /\ \/ /\ IsBlock(Part(base, mine), user_message, generated)
                  /\ IsBlock(Part(base + mine, theirs), other.user_message, other.generated)
               \/ /\ IsBlock(Part(base, theirs), other.user_message, other.generated)
                  /\ IsBlock(Part(base + theirs, mine), user_message, generated)

\* Both requests read a session that held two messages; the second request
\* stored its turn first, then the first one stored a turn with a tool
\* message in it.
C26_Witness ==
    /\ BothStored
    /\ Len(existing.messages) = 2
    /\ session.messages[3] = other.user_message
    /\ session.messages[5] = user_message
    /\ Len(generated) = 3

-----------------------------------------------------------------------------
(* Properties of a failing turn's side effects, checked under Spec *)

\* The turn's run ended in an exception of a provider call after the first
\* round: the calls of the rounds before were all dispatched.
ProviderFailedLate ==
    /\ pc \in {"raised", "failed"}
    /\ round > 1
    /\ call_i = Len(tool_calls) + 1

\* The notes that the create_note calls of this run returned.
NotesCreatedInRun ==
    { DictGet(DictGet(tool_trace[i], "result"), "note") :
        i \in { j \in 1..Len(tool_trace) :
                  /\ ToolName(DictGet(tool_trace[j], "tool_call")) = PyStr(<<"create_note">>)
                  /\ DictGet(DictGet(tool_trace[j], "result"), "ok") = PyBool(TRUE) } }

\* C27: when a provider call fails in a round after the first, every note
\* that a create_note call of the earlier rounds created is still in the
\* note store, and once the turn is reported as failed (status 500) the
\* session document is the one the request read.
C27_FailedTurnKeepsNotes ==
    ProviderFailedLate
      => /\ \A note \in NotesCreatedInRun :
              \E k \in 1..Len(notes) :
                /\ PyStr(OidStr(DictGet(notes[k], "_id").v)) = DictGet(note, "id")
                /\ DictGet(notes[k], "title") = DictGet(note, "title")
                /\ DictGet(notes[k], "content") = DictGet(note, "content")
         /\ pc = "failed" => (status = 500 /\ session = existing)

\* A turn was reported as failed after its first round had created a note.
C27_Witness ==
    /\ ProviderFailedLate
    /\ pc = "failed"
    /\ NotesCreatedInRun # {}
    /\ Len(notes) >= 1
    /\ session = existing

-----------------------------------------------------------------------------
(* Properties of _sanitize_messages_for_llm, checked under SpecPure *)

ForwardedRoles ==
    {PyStr(<<"system">>), PyStr(<<"user">>), PyStr(<<"assistant">>), PyStr(<<"tool">>)}

\* The keys of a dict.
KeysOf(d) == { d.v[i][1] : i \in 1..Len(d.v) }

\* C28: the messages _sanitize_messages_for_llm forwards are the stored
\* messages of role system, user, assistant or tool, in their stored order,
\* the others dropped; each carries its role and content and nothing else
\* but tool_calls on an assistant message and tool_call_id on a tool message,
\* so never created_at.
C28_SanitizedMessagesClean ==
    applied.fn = "_sanitize_messages_for_llm"
      => LET stored == applied.arg.v
             out == applied.out.v
             kept == SelectSeq(stored, LAMBDA m : DictGet(m, "role") \in ForwardedRoles)
         IN /\ Len(out) = Len(kept)
            /\ \A i \in 1..Len(out) :
                 /\ DictGet(out[i], "role") = DictGet(kept[i], "role")
                 /\ KeysOf(out[i]) \subseteq {"role", "content", "tool_calls", "tool_call_id"}
                 /\ "content" \in KeysOf(out[i]) <=> "content" \in KeysOf(kept[i])
                 /\ DictGet(out[i], "content") = DictGet(kept[i], "content")
                 /\ "tool_calls" \in KeysOf(out[i])
                      => /\ DictGet(out[i], "role") = PyStr(<<"assistant">>)
                         /\ DictGet(out[i], "tool_calls") = DictGet(kept[i], "tool_calls")
                 /\ "tool_call_id" \in KeysOf(out[i])
                      => /\ DictGet(out[i], "role") = PyStr(<<"tool">>)
                         /\ DictGet(out[i], "tool_call_id") = DictGet(kept[i], "tool_call_id")
                 /\ "created_at" \notin KeysOf(out[i])

\* A stored message of role function was dropped and the stamped tool
\* message after it was forwarded without its stamp.
C28_Witness ==
    /\ applied.fn = "_sanitize_messages_for_llm"
    /\ Len(applied.arg.v) = 2
    /\ applied.arg.v[1] = Message("function", T_hi)
    /\ "created_at" \in KeysOf(applied.arg.v[2])
    /\ applied.out.v = << PyDict(<< <<"role", PyStr(<<"tool">>)>>,
                                    <<"content", PyStr(<<"{", "}">>)>>,
                                    <<"tool_call_id", PyStr(<<"call_t">>)>> >>) >>

=============================================================================
